---- MODULE Spec2Model ----
(***************************************************************************)
(* A model of secondhand-mcp: the marketplace adapters (Facebook, eBay,    *)
(* Depop, Poshmark), the shared headless-browser session manager, the      *)
(* marketplace registry and the search_marketplace tool handler.           *)
(*                                                                         *)
(* Every async function is cut at its awaits: one action per stretch of    *)
(* code that runs without yielding to the event loop.  A handler runs on   *)
(* a process p (one in-flight tool request or direct call); proc[p].pc     *)
(* is the await it is suspended at.                                        *)
(***************************************************************************)
EXTENDS Integers, Sequences, FiniteSets, Bags, TLC

\* In-flight callers: two tool requests can overlap on the event loop.
Procs == {"p1", "p2"}

\* Total number of calls started in one behaviour.
MaxCalls == 2

\* Network responses one page sees during one search.
MaxResponses == 2

\* Longest list an upstream returns.
MaxItems == 2

\* The clock advances at most MaxTicks times, by TickMs (30 s) each time.
MaxTicks == 4
TickMs == 30 * 1000

\* Calls of registerMarketplace in one behaviour.
MaxRegistrations == 4

VARIABLES
  \* ---- browser.ts
  browser,      \* the module-level `browser` handle: 0 is null, else an instance id
  inst,         \* the instances launched, by id: "alive" | "disconnected" | "closed"
  nInst,        \* number of instances launched so far
  existing,     \* the paths for which existsSync is true (the file system)
  platform,     \* process.platform
  envPath,      \* process.env.PUPPETEER_EXECUTABLE_PATH ("null": not set)
  closing,      \* closeBrowser suspended at `await browser.close()`: the instance, else 0
  \* ---- facebook.ts
  locationCache, \* adapter instance -> its private locationCache (key -> coordinates)
  locCalls,      \* the location queries sent upstream so far (a bag of query strings)
  locMisses,     \* those of them that resolveLocation resolved to null
  \* ---- ebay.ts
  accessToken,    \* adapter instance -> its `accessToken`: 0 is null, else the token
  tokenExpiresAt, \* adapter instance -> its `tokenExpiresAt`, in ms
  now,            \* Date.now(), in ms
  nTokens,        \* tokens the OAuth endpoint has issued so far
  \* ---- marketplaces/index.ts
  marketplaces,   \* the registry Map, as its entries in insertion order
  registered,     \* the names passed to registerMarketplace so far, in call order
  env,            \* process.env: MARKETPLACES, EBAY_CLIENT_ID, EBAY_CLIENT_SECRET
  initialized,    \* initializeMarketplaces has run
  \* ---- the callers
  proc,         \* process -> the locals of the call it runs (see InitProc)
  ncalls,       \* calls started so far
  leaked        \* pages left open by calls that have returned

browserVars == <<browser, inst, nInst, existing, platform, envPath, closing>>
fbVars == <<locationCache, locCalls, locMisses>>
ebayVars == <<accessToken, tokenExpiresAt, now, nTokens>>
regVars == <<marketplaces, registered, env, initialized>>
adapterVars == <<fbVars, ebayVars, regVars>>
callVars == <<proc, ncalls, leaked>>
vars == <<browserVars, adapterVars, callVars>>

----------------------------------------------------------------------------
\* Values

NoError == "none"
NoTotal == -1

\* types.ts SearchResult
Outcome(mp, ok, ls, err, total) ==
  [marketplace |-> mp, success |-> ok, listings |-> ls, error |-> err, totalFound |-> total]

NoOutcome == Outcome("", FALSE, <<>>, NoError, NoTotal)

NoRet == [kind |-> "none", val |-> NoOutcome]
Returned(v) == [kind |-> "value", val |-> v]
Raised(e) == [kind |-> "raised", val |-> Outcome("", FALSE, <<>>, e, NoTotal)]

\* The result of a stretch of code that may throw
Ok(v) == [thrown |-> FALSE, val |-> v]
Thrown == [thrown |-> TRUE, val |-> NoOutcome]

\* SearchParams.limit when the caller gave none
NoLimit == 0

\* SearchParams as the adapters read it: limit (NoLimit: undefined), showSold
\* ("absent", "true", "false") and the location string (a sequence of characters)
Params(limit, showSold, location) ==
  [limit |-> limit, showSold |-> showSold, location |-> location]

NoParams == Params(NoLimit, "absent", <<>>)

\* Poshmark's intercepted JSON body: data is "null" (no body, or a falsy one),
\* "absent" (no data field), "array" or "notArray"; items is the data array and
\* total is total_count (NoTotal: absent).
PoshBody(data, items, total) == [data |-> data, items |-> items, total |-> total]

\* let apiData: any = null
NoApiData == PoshBody("null", <<>>, NoTotal)

\* No payload consumed yet
NoResp == [api |-> "none"]

\* How one of the two detail queries has settled: st is "none" (not issued),
\* "pending", "ok" or "failed"; json is the body of a query that succeeded.
Settle(st, json) == [st |-> st, json |-> json]

\* A createError that drops the message
createErrorBare(mp, message) == Outcome(mp, FALSE, <<>>, NoError, NoTotal)

\* BaseMarketplace.createError
createError(mp, message) == Outcome(mp, FALSE, <<>>, message, NoTotal)

----------------------------------------------------------------------------
\* browser.ts: the shared headless browser

Platforms == {"darwin", "linux", "win32"}

\* browser.ts CHROME_PATHS (the paths are named, not spelled out)
CHROME_PATHS ==
  [darwin |-> <<"mac/Google Chrome", "mac/Chromium">>,
   linux  |-> <<"/usr/bin/google-chrome", "/usr/bin/google-chrome-stable",
                "/usr/bin/chromium-browser", "/usr/bin/chromium">>,
   win32  |-> <<"win/Program Files/chrome.exe", "win/Program Files (x86)/chrome.exe">>]

NoPath == "null"

\* CHROME_PATHS[process.platform] ?? []
PlatformPaths == IF platform \in Platforms THEN CHROME_PATHS[platform] ELSE <<>>

RECURSIVE FirstExisting(_, _)
FirstExisting(paths, ex) ==
  IF paths = <<>> THEN NoPath
  ELSE IF Head(paths) \in ex THEN Head(paths)
  ELSE FirstExisting(Tail(paths), ex)

\* findChrome(): the first path of the platform's list that exists
findChrome == FirstExisting(PlatformPaths, existing)

\* A getBrowser that does not read the environment
executablePathNoOverride == findChrome

\* getBrowser: process.env.PUPPETEER_EXECUTABLE_PATH || findChrome()
\* (an empty string is falsy)
executablePath == IF envPath \notin {NoPath, ""} THEN envPath ELSE findChrome

\* browser && browser.connected
Connected == browser # 0 /\ inst[browser] = "alive"

\* The instances launched by the session manager that are running.
Alive == {i \in DOMAIN inst : inst[i] = "alive"}

----------------------------------------------------------------------------
\* Calls, and how an exception leaves them

SearchOps == {"fbSearch", "ebaySearch", "depopSearch", "poshSearch"}
BrowserOps == {"depopSearch", "poshSearch", "depopDetails"}

\* The adapter's `name`
MpOf(o) ==
  CASE o = "fbSearch" -> "facebook"
    [] o = "ebaySearch" -> "ebay"
    [] o = "depopSearch" -> "depop"
    [] o = "poshSearch" -> "poshmark"
    [] OTHER -> ""

\* The message of search()'s catch block; the cause `${error}` that follows the
\* prefix is not kept.
FailedMessage(o) ==
  CASE o = "fbSearch" -> "Facebook Marketplace search failed"
    [] o = "ebaySearch" -> "eBay search failed"
    [] o = "depopSearch" -> "Depop search failed"
    [] o = "poshSearch" -> "Poshmark search failed"
    [] OTHER -> ""

\* A search() without its try/catch: the exception reaches the caller
CaughtNowhere(o, e) == Raised(e)

\* What a call gives its caller when an exception is raised inside its body:
\* every search() wraps its body in try/catch and returns createError(...).
Caught(o, e) ==
  IF o \in SearchOps THEN Returned(createError(MpOf(o), FailedMessage(o)))
  ELSE Raised(e)

\* The locals of a call that has returned: its local variables are gone; what it
\* returned, the payload it consumed and the page it may have left open stay.
Finished(l) == [l EXCEPT !.pc = "done", !.b = 0, !.pvar = 0, !.apiData = NoApiData, !.nresp = 0]

\* A call leaves its try block: the browser adapters run
\* `finally { if (page) await page.close().catch(() => {}) }`, which reads no
\* local but `page`.
Leave(l) ==
  IF l.op \in BrowserOps /\ l.pvar # 0
    THEN [l EXCEPT !.pc = "finally", !.apiData = NoApiData, !.nresp = 0]
    ELSE Finished(l)

\* The locals l of a call after an exception raised at the await it is suspended at
Throw(l, e) == Leave([l EXCEPT !.ret = Caught(l.op, e), !.threw = TRUE])

\* The locals l of a call after `return v` inside its try block
Return(l, v) == Leave([l EXCEPT !.ret = Returned(v)])

\* The locals of a process
InitProc ==
  [pc |-> "idle",         \* the await the call is suspended at
   op |-> "none",         \* the function the process is running
   params |-> NoParams,   \* the SearchParams it was given
   ret |-> NoRet,         \* what the call returned or raised
   threw |-> FALSE,       \* an exception was raised inside the call's body
   resp |-> NoResp,       \* the upstream payload the call consumed last
   exe |-> NoPath,        \* the executablePath getBrowser gave puppeteer.launch last
   b |-> 0,               \* newPage's local `b`
   pvar |-> 0,            \* the caller's local `page`: 0 undefined, else the instance it is on
   pageOf |-> 0,          \* the page b.newPage() resolved to: 0 none, else its instance
   apiData |-> NoApiData, \* Poshmark search's local `apiData`
   nresp |-> 0,           \* network responses the call's page has seen
   firstPayload |-> [seen |-> FALSE, body |-> NoApiData],  \* the first payload the handler took
   strategy |-> {},       \* the extraction strategies the Poshmark search has run
   decided |-> NoApiData, \* `apiData` as the Poshmark search read it to choose
   self |-> "none",       \* the adapter instance the call is made on
   key |-> <<>>,          \* resolveLocation's cacheKey
   coords |-> 0,          \* Facebook search's `coords`: 0 null, else the place
   listingId |-> 0,       \* getListingDetails' listingId (0: none)
   asked |-> "",          \* get_listing_details' `marketplace` argument ("": none)
   price |-> <<>>,        \* the formatted price a listing is built from
   photosRes |-> Settle("none", [kind |-> "none"]),  \* the photos query of getListingDetails
   infoRes |-> Settle("none", [kind |-> "none"]),    \* the info query of getListingDetails
   token |-> 0,           \* eBay search's `token`: 0 before getToken() resolves
   exchanged |-> FALSE,   \* getToken() went to the OAuth endpoint
   tokPrev |-> 0,         \* accessToken, tokenExpiresAt and Date.now() as getToken()
   tokExp |-> 0,          \*   read them in its test
   tokAt |-> 0,
   top |-> "none",        \* "all" inside a search_marketplace request for all marketplaces
   mps |-> <<>>,          \* the handler's getAllMarketplaces() array
   i |-> 0,               \* the index the handler's loop is at
   results |-> <<>>,      \* the handler's `results`
   returned |-> <<>>,     \* how each search the handler awaited has settled
   started |-> {}]        \* the indices whose search the handler has called

\* No call is running on p
Idle(p) ==
  /\ proc[p].pc \in {"idle", "done"}
  /\ proc[p].top = "all" => proc[p].i > Len(proc[p].mps)

\* The locals of a process that enters operation o with the parameters q
Fresh(o, q) == [InitProc EXCEPT !.op = o, !.params = q]

\* Process p is suspended at the await pc
Awaits(p, pc) == proc[p].pc = pc

\* Process p goes on as l, and nothing else changes
Step(p, l) ==
  /\ proc' = [proc EXCEPT ![p] = l]
  /\ UNCHANGED <<browserVars, adapterVars, ncalls, leaked>>

----------------------------------------------------------------------------
\* browser.ts getBrowser / newPage / closeBrowser

\* A getBrowser() that returns the cached handle without asking whether it is
\* connected
getBrowserStale ==
  IF browser # 0 THEN "cached"
  ELSE IF executablePath = NoPath THEN "nochrome"
  ELSE "launch"

\* getBrowser() up to its first await: the cached handle is returned when it is
\* connected ("cached"); otherwise the executable is looked up, and either the
\* configuration error is thrown ("nochrome") or puppeteer.launch is called.
getBrowser ==
  IF Connected THEN "cached"
  ELSE IF executablePath = NoPath THEN "nochrome"
  ELSE "launch"

\* A caller enters `page = await newPage()`: the caller, newPage() and
\* getBrowser() run without yielding up to the first await that suspends.
EnterNewPage(l) ==
  CASE getBrowser = "cached" -> [l EXCEPT !.b = browser, !.pc = "bNewPage"]
    [] getBrowser = "nochrome" -> Throw(l, "Chrome/Chromium not found")
    [] OTHER -> [l EXCEPT !.pc = "launching", !.exe = executablePath]

\* `browser = await puppeteer.launch(...)` resumes: the new instance is stored in
\* the module-level handle and returned; or the launch rejects, as it does when
\* there is no file at executablePath.
LaunchDone(p) ==
  /\ proc[p].pc = "launching"
  /\ \/ /\ proc[p].exe \in existing
        /\ nInst' = nInst + 1
        /\ inst' = Append(inst, "alive")
        /\ browser' = nInst + 1
        /\ proc' = [proc EXCEPT ![p] = [@ EXCEPT !.b = nInst + 1, !.pc = "bNewPage"]]
        /\ UNCHANGED <<existing, platform, envPath, closing, adapterVars, ncalls, leaked>>
     \/ Step(p, Throw(proc[p], "launch failed"))

\* `const page = await b.newPage()` resumes
BNewPage(p) ==
  /\ proc[p].pc = "bNewPage"
  /\ \/ /\ inst[proc[p].b] = "alive"
        /\ Step(p, [proc[p] EXCEPT !.pageOf = proc[p].b, !.pc = "setViewport"])
     \/ Step(p, Throw(proc[p], "newPage failed"))

\* Where the caller goes on once `page = await newPage()` has given it the page
AfterNewPage(o) ==
  CASE o = "depopSearch" -> "depopGoto"
    [] o = "poshSearch" -> "poshGoto"
    [] o = "depopDetails" -> "depopDetailGoto"
    [] OTHER -> "done"

\* `await page.setViewport(...)` resumes, and newPage() returns the page
SetViewport(p) ==
  /\ proc[p].pc = "setViewport"
  /\ \/ /\ inst[proc[p].b] = "alive"
        /\ Step(p, [proc[p] EXCEPT !.pvar = proc[p].pageOf, !.pc = AfterNewPage(proc[p].op)])
     \/ Step(p, Throw(proc[p], "setViewport failed"))

\* A finally block that closes the browser the page is on
PageCloseBrowser(p) ==
  /\ proc[p].pc = "finally"
  /\ inst' = [inst EXCEPT ![proc[p].pvar] = "closed"]
  /\ proc' = [proc EXCEPT ![p] = Finished([proc[p] EXCEPT !.pageOf = 0])]
  /\ UNCHANGED <<browser, nInst, existing, platform, envPath, closing, adapterVars, ncalls, leaked>>

\* finally { if (page) await page.close().catch(() => {}) }: the page is closed,
\* a rejection of close() is swallowed, and the call returns what it had.
PageClose(p) ==
  /\ proc[p].pc = "finally"
  /\ Step(p, Finished([proc[p] EXCEPT !.pageOf = 0]))

\* The browser process dies or drops the connection: browser.connected is false.
Disconnect(i) ==
  /\ inst[i] = "alive"
  /\ inst' = [inst EXCEPT ![i] = "disconnected"]
  /\ UNCHANGED <<browser, nInst, existing, platform, envPath, closing, adapterVars, callVars>>

\* closeBrowser() up to `await browser.close()`
CloseBrowserStart ==
  /\ closing = 0
  /\ browser # 0
  /\ closing' = browser
  /\ inst' = [inst EXCEPT ![browser] = IF @ = "alive" THEN "closed" ELSE @]
  /\ UNCHANGED <<browser, nInst, existing, platform, envPath, adapterVars, callVars>>

\* A closeBrowser() that keeps the handle of the instance it closed
CloseBrowserKeepsHandle ==
  /\ closing # 0
  /\ closing' = 0
  /\ UNCHANGED <<browser, inst, nInst, existing, platform, envPath, adapterVars, callVars>>

\* closeBrowser() resumes: `browser = null`
CloseBrowserDone ==
  /\ closing # 0
  /\ browser' = 0
  /\ closing' = 0
  /\ UNCHANGED <<inst, nInst, existing, platform, envPath, adapterVars, callVars>>

\* A call is made on an idle process and runs up to its first await, which
\* leaves it as l; a page its previous call left open stays open.
Call(p, l) ==
  /\ Idle(p)
  /\ ncalls < MaxCalls
  /\ ncalls' = ncalls + 1
  /\ leaked' = leaked + (IF proc[p].pageOf # 0 THEN 1 ELSE 0)
  /\ proc' = [proc EXCEPT ![p] = l]

----------------------------------------------------------------------------
\* depop.ts DepopMarketplace.search

\* `limit = 24` in the destructuring of params
DepopDefaultLimit == 24

DepopLimit(q) == IF q.limit = NoLimit THEN DepopDefaultLimit ELSE q.limit

\* A product of the search API's `products` array: null, or an object that may
\* lack its slug (slug 0).
Product(s) == [isNull |-> FALSE, slug |-> s]
NullProduct == [isNull |-> TRUE, slug |-> 0]

\* The value page.evaluate resolves to, { error, data }: error is NoError or a
\* message (a failed fetch, a non-ok status, a body that is not JSON); data is
\* falsy (null, 0, "") or truthy; a truthy data has products absent, a list, or
\* a truthy value that cannot be iterated; resultCount is data.meta.resultCount
\* (NoTotal: absent).
DepopPayload(error, data, products, items, resultCount) ==
  [api |-> "depop", error |-> error, data |-> data, products |-> products,
   items |-> items, resultCount |-> resultCount]

DepopListing(product) == [id |-> product.slug, marketplace |-> "depop"]

\* for (const product of products) { ... }: no try/catch around the body
RECURSIVE DepopLoop(_, _, _)
DepopLoop(products, limit, listings) ==
  IF products = <<>> \/ Len(listings) >= limit THEN Ok(listings)
  ELSE LET product == Head(products) IN
    IF product.isNull THEN Thrown
    ELSE IF product.slug = 0 THEN DepopLoop(Tail(products), limit, listings)
    ELSE DepopLoop(Tail(products), limit, Append(listings, DepopListing(product)))

\* search() from the value of page.evaluate to its return or throw
DepopFromPayload(r, limit) ==
  IF r.error # NoError \/ r.data = "falsy"
    THEN Ok(createError("depop", "Depop API error"))
  ELSE IF r.products = "notIterable" THEN Thrown
  ELSE LET products == IF r.products = "list" THEN r.items ELSE <<>>
           looped == DepopLoop(products, limit, <<>>)
       IN IF looped.thrown THEN Thrown
          ELSE Ok(Outcome("depop", TRUE, looped.val, NoError,
                          IF r.resultCount # NoTotal THEN r.resultCount
                          ELSE Len(looped.val)))

\* `await page.goto(DEPOP_HOME, ...)` resumes, and the in-page fetch is issued
DepopGoto(p) ==
  /\ proc[p].pc = "depopGoto"
  /\ \/ Step(p, [proc[p] EXCEPT !.pc = "depopEval"])
     \/ Step(p, Throw(proc[p], "navigation failed"))

\* `await page.evaluate(...)` resumes with the payload r, or rejects
DepopEval(p, r) ==
  /\ proc[p].pc = "depopEval"
  /\ LET l == [proc[p] EXCEPT !.resp = r]
         res == DepopFromPayload(r, DepopLimit(l.params))
     IN Step(p, IF res.thrown THEN Throw(l, "TypeError") ELSE Return(l, res.val))

DepopEvalFails(p) ==
  /\ proc[p].pc = "depopEval"
  /\ Step(p, Throw(proc[p], "evaluate failed"))

\* DepopMarketplace.search is called with the SearchParams q
DepopSearch(p, q) ==
  /\ Call(p, EnterNewPage(Fresh("depopSearch", q)))
  /\ UNCHANGED <<browserVars, adapterVars>>

----------------------------------------------------------------------------
\* base.ts PoshmarkMarketplace.search

\* `limit = 48` in the destructuring of params
PoshDefaultLimit == 48

PoshLimit(q) == IF q.limit = NoLimit THEN PoshDefaultLimit ELSE q.limit

\* response.status() === 200
HttpOk == 200

\* A network response of the page: whether its url includes VM_REST_PATTERN, its
\* status, whether its content-type includes application/json, whether
\* response.json() resolves, and the body it resolves to.
Response(vmRest, status, json, parses, body) ==
  [vmRest |-> vmRest, status |-> status, json |-> json, parses |-> parses, body |-> body]

\* The page.on('response') handler: the value of `apiData` after the response r
OnResponse(cur, r) ==
  IF r.vmRest /\ r.status = HttpOk /\ r.json /\ r.parses THEN r.body ELSE cur

\* The first payload the handler has assigned to `apiData`, after the response r
FirstTaken(first, r) ==
  IF ~first.seen /\ r.vmRest /\ r.status = HttpOk /\ r.json /\ r.parses
    THEN [seen |-> TRUE, body |-> r.body]
    ELSE first

\* An item of the payload's data array: null, or an object whose id and post_id
\* may both be missing (id 0).
PoshItem(id) == [isNull |-> FALSE, id |-> id]
NullPoshItem == [isNull |-> TRUE, id |-> 0]

PoshListing(id) == [id |-> id, marketplace |-> "poshmark"]

\* parseApiResponse's loop: try/catch around the body of each item
RECURSIVE PoshApiLoop(_, _, _)
PoshApiLoop(items, limit, listings) ==
  IF items = <<>> \/ Len(listings) >= limit THEN listings
  ELSE LET item == Head(items) IN
    IF item.isNull \/ item.id = 0 THEN PoshApiLoop(Tail(items), limit, listings)
    ELSE PoshApiLoop(Tail(items), limit, Append(listings, PoshListing(item.id)))

\* parseApiResponse(apiData, limit)
parseApiResponse(body, limit) ==
  LET listings == PoshApiLoop(body.items, limit, <<>>) IN
    Outcome("poshmark", TRUE, listings, NoError,
            IF body.total # NoTotal THEN body.total ELSE Len(listings))

\* A card read from the DOM: its href holds /listing/ and a slug that may be
\* empty (slug 0).
Card(slug) == [slug |-> slug]

\* parseDomResults' loop over rawListings
RECURSIVE PoshDomLoop(_, _, _)
PoshDomLoop(cards, limit, listings) ==
  IF cards = <<>> \/ Len(listings) >= limit THEN listings
  ELSE IF Head(cards).slug = 0 THEN PoshDomLoop(Tail(cards), limit, listings)
  ELSE PoshDomLoop(Tail(cards), limit, Append(listings, PoshListing(Head(cards).slug)))

\* parseDomResults from the value of page.evaluate to its return
parseDomResults(cards, limit) ==
  LET listings == PoshDomLoop(cards, limit, <<>>) IN
    Outcome("poshmark", TRUE, listings, NoError, Len(listings))

\* apiData?.data && Array.isArray(apiData.data)
UsablePayload(body) == body.data = "array"

\* A search that parses the payload and reads the DOM as well
ChooseBoth(l) ==
  [l EXCEPT !.strategy = @ \cup {"api", "dom"}, !.decided = l.apiData,
            !.pc = "poshWaitSel"]

\* search() from "Strategy 1" on: the intercepted payload is parsed when it is
\* usable, and otherwise parseDomResults starts to wait for the cards.
ChooseStrategy(l) ==
  IF UsablePayload(l.apiData)
    THEN Return([l EXCEPT !.strategy = @ \cup {"api"}, !.decided = l.apiData],
                parseApiResponse(l.apiData, PoshLimit(l.params)))
    ELSE [l EXCEPT !.strategy = @ \cup {"dom"}, !.decided = l.apiData,
                   !.pc = "poshWaitSel"]

\* The page of p's search is open with the response handler on it
Listening(p) ==
  /\ proc[p].pc \in {"poshGoto", "poshGrace", "poshWaitSel", "poshDomEval"}
  /\ proc[p].nresp < MaxResponses

\* The page receives a network response while the handler is attached
PoshResponse(p, r) ==
  /\ Listening(p)
  /\ Step(p, [proc[p] EXCEPT !.apiData = OnResponse(@, r), !.nresp = @ + 1,
                              !.firstPayload = FirstTaken(@, r)])

\* `await page.goto(searchUrl, ...)` resumes: with no payload yet the call waits
\* 2000 ms more, otherwise it goes on to the strategies.
PoshGoto(p) ==
  /\ proc[p].pc = "poshGoto"
  /\ \/ Step(p, IF proc[p].apiData.data = "null"
                  THEN [proc[p] EXCEPT !.pc = "poshGrace"]
                  ELSE ChooseStrategy(proc[p]))
     \/ Step(p, Throw(proc[p], "navigation failed"))

\* The 2000 ms timer fires
PoshGrace(p) ==
  /\ proc[p].pc = "poshGrace"
  /\ Step(p, ChooseStrategy(proc[p]))

\* `await page.waitForSelector('.card', ...)` resumes, or times out
PoshWaitSel(p) ==
  /\ proc[p].pc = "poshWaitSel"
  /\ \/ Step(p, [proc[p] EXCEPT !.pc = "poshDomEval"])
     \/ Step(p, Return(proc[p], createError("poshmark",
                         "Poshmark: No listings found or page failed to load")))

\* `await page.evaluate(...)` of parseDomResults resumes with the cards
PoshDomEval(p, cards) ==
  /\ proc[p].pc = "poshDomEval"
  /\ Step(p, Return([proc[p] EXCEPT !.resp = [api |-> "dom", cards |-> cards]],
                    parseDomResults(cards, PoshLimit(proc[p].params))))

PoshDomEvalFails(p) ==
  /\ proc[p].pc = "poshDomEval"
  /\ Step(p, Throw(proc[p], "evaluate failed"))

\* PoshmarkMarketplace.search is called with the SearchParams q
PoshSearch(p, q) ==
  /\ Call(p, EnterNewPage(Fresh("poshSearch", q)))
  /\ UNCHANGED <<browserVars, adapterVars>>

----------------------------------------------------------------------------
\* Strings are sequences of one-character strings.

\* The letters that occur in the model, as <<lower case, upper case>>; every
\* other character has no case.
Letters ==
  {<<"a", "A">>, <<"c", "C">>, <<"d", "D">>, <<"e", "E">>, <<"f", "F">>,
   <<"i", "I">>, <<"l", "L">>, <<"n", "N">>, <<"o", "O">>, <<"r", "R">>,
   <<"s", "S">>, <<"x", "X">>, <<"b", "B">>, <<"k", "K">>, <<"y", "Y">>}

toLowerCaseChar(c) ==
  IF \E l \in Letters : l[2] = c THEN (CHOOSE l \in Letters : l[2] = c)[1] ELSE c

toUpperCaseChar(c) ==
  IF \E l \in Letters : l[1] = c THEN (CHOOSE l \in Letters : l[1] = c)[2] ELSE c

\* String.prototype.toLowerCase / toUpperCase
toLowerCase(s) == [i \in DOMAIN s |-> toLowerCaseChar(s[i])]
toUpperCase(s) == [i \in DOMAIN s |-> toUpperCaseChar(s[i])]

WhiteSpace == {" ", "\t"}

RECURSIVE trimStart(_)
trimStart(s) ==
  IF s # <<>> /\ Head(s) \in WhiteSpace THEN trimStart(Tail(s)) ELSE s

RECURSIVE trimEnd(_)
trimEnd(s) ==
  IF s # <<>> /\ s[Len(s)] \in WhiteSpace THEN trimEnd(SubSeq(s, 1, Len(s) - 1)) ELSE s

\* String.prototype.trim
trim(s) == trimEnd(trimStart(s))

\* String.prototype.startsWith
startsWith(s, prefix) ==
  Len(s) >= Len(prefix) /\ SubSeq(s, 1, Len(prefix)) = prefix

----------------------------------------------------------------------------
\* base.ts BaseMarketplace.parsePrice
\*   priceStr.match(/([£€$])?[\s]*([\d,]+(?:\.\d{2})?)/)

Digits == <<"0", "1", "2", "3", "4", "5", "6", "7", "8", "9">>

\* \d
IsDigit(c) == \E k \in DOMAIN Digits : Digits[k] = c

DigitVal(c) == (CHOOSE k \in DOMAIN Digits : Digits[k] = c) - 1

\* [£€$] (the pound and euro signs are written "pound" and "euro")
CurrencySymbols == {"pound", "euro", "$"}

\* [\s]*: the first index from i on that is not white space
RECURSIVE SkipSpaces(_, _)
SkipSpaces(s, i) ==
  IF i <= Len(s) /\ s[i] \in WhiteSpace THEN SkipSpaces(s, i + 1) ELSE i

\* [\d,]+: the last index of the run of digits and commas that starts at j
\* (j - 1 when there is none)
RECURSIVE RunEnd(_, _)
RunEnd(s, j) ==
  IF j <= Len(s) /\ (IsDigit(s[j]) \/ s[j] = ",") THEN RunEnd(s, j + 1) ELSE j - 1

\* The match of the pattern that starts at index i, if there is one: match[1]
\* (cur), and match[2] as its run of digits and commas (run) and the two
\* decimals that follow it (frac).  When a symbol stands at i and the rest does
\* not match after it, the pattern cannot match at i without the symbol either.
MatchAt(s, i) ==
  LET hasSym == s[i] \in CurrencySymbols
      j == SkipSpaces(s, IF hasSym THEN i + 1 ELSE i)
      k == RunEnd(s, j)
      hasFrac == /\ k + 3 <= Len(s)
                 /\ s[k + 1] = "."
                 /\ IsDigit(s[k + 2]) /\ IsDigit(s[k + 3])
  IN [ok |-> k >= j,
      cur |-> IF hasSym THEN s[i] ELSE "undefined",
      run |-> SubSeq(s, j, k),
      frac |-> IF hasFrac THEN SubSeq(s, k + 2, k + 3) ELSE <<>>]

NoMatch == [ok |-> FALSE, cur |-> "undefined", run |-> <<>>, frac |-> <<>>]

\* String.prototype.match without the g flag: the leftmost match
RECURSIVE FirstMatch(_, _)
FirstMatch(s, i) ==
  IF i > Len(s) THEN NoMatch
  ELSE IF MatchAt(s, i).ok THEN MatchAt(s, i)
  ELSE FirstMatch(s, i + 1)

\* The number a string of digits denotes
RECURSIVE Val(_)
Val(ds) ==
  IF ds = <<>> THEN 0 ELSE Val(SubSeq(ds, 1, Len(ds) - 1)) * 10 + DigitVal(ds[Len(ds)])

\* Numbers are counted in hundredths; NaN is not a number
NaN == -1

\* parseFloat(match[2].replace(/,/g, '')): the commas are removed; without a
\* digit left there is nothing to parse
parseFloat(run, frac) ==
  LET ds == SelectSeq(run, IsDigit) IN
  IF ds = <<>> /\ frac = <<>> THEN NaN ELSE Val(ds) * 100 + Val(frac)

NoPrice == [isNull |-> TRUE, numeric |-> NaN, currency |-> "undefined"]

\* BaseMarketplace.parsePrice
parsePrice(priceStr) ==
  LET m == FirstMatch(priceStr, 1) IN
  IF ~m.ok THEN NoPrice
  ELSE [isNull |-> FALSE, numeric |-> parseFloat(m.run, m.frac),
        currency |-> IF m.cur = "undefined" THEN "$" ELSE m.cur]

\* Listing.priceNumeric when it is undefined
NoNumeric == -2

\* The price fields of the listing parseListings builds from a formatted price:
\* price, priceNumeric: parsed?.numeric, currency: parsed?.currency || '$'
PricedListing(price) ==
  LET parsed == parsePrice(price) IN
  [price |-> price,
   priceNumeric |-> IF parsed.isNull THEN NoNumeric ELSE parsed.numeric,
   currency |-> IF parsed.isNull THEN "$" ELSE parsed.currency]

\* A listing is built from the formatted price `price`
BuildListing(p, price) ==
  /\ Call(p, Finished([Fresh("parsePrice", NoParams) EXCEPT
                         !.price = price, !.ret = Returned(PricedListing(price))]))
  /\ UNCHANGED <<browserVars, adapterVars>>

----------------------------------------------------------------------------
\* facebook.ts

FbInstances == {"fb1", "fb2"}

FbDefaultLimit == 24

\* search(): `location = 'san francisco'`
FbDefaultLocation ==
  <<"s", "a", "n", " ", "f", "r", "a", "n", "c", "i", "s", "c", "o">>

\* SearchParams.location when the caller gave none
NoLocation == <<"undefined">>

FbLimit(q) == IF q.limit = NoLimit THEN FbDefaultLimit ELSE q.limit
FbLocation(q) == IF q.location = NoLocation THEN FbDefaultLocation ELSE q.location

\* params.showSold ?? false
FbShowSold(q) == q.showSold = "true"

\* A cache keyed by the query as given
cacheKeyRaw(query) == query

\* resolveLocation: `const cacheKey = query.toLowerCase().trim()`
cacheKey(query) == trim(toLowerCase(query))

\* What fetch and the JSON body give fetchGraphQL: fetch rejects, or the status is
\* not ok, or the body does not parse, or it carries `errors`, or it is `json`.
GqlResponse(rejects, ok, parses, errors, json) ==
  [api |-> "graphql", rejects |-> rejects, ok |-> ok, parses |-> parses,
   errors |-> errors, json |-> json]

\* fetchGraphQL: the parsed body, or an exception
fetchGraphQL(r) ==
  IF r.rejects \/ ~r.ok \/ ~r.parses \/ r.errors THEN Thrown ELSE Ok(r.json)

\* The body of a location query: edges is "absent", "empty" or "list"; node tells
\* whether edges[0].node and its location are there; place is where it is.
LocJson(edges, node, place) ==
  [kind |-> "location", edges |-> edges, node |-> node, place |-> place]

\* resolveLocation after its await: the coordinates, or 0 for null.  A first edge
\* without node or location raises a TypeError, which the catch turns into null.
LocationOf(r) ==
  LET res == fetchGraphQL(r) IN
  IF res.thrown THEN 0
  ELSE IF res.val.edges # "list" THEN 0
  ELSE IF ~res.val.node THEN 0
  ELSE res.val.place

\* An edge of the search feed.  node is "null" (no edge or no node), "other" (a
\* node of another __typename) or "story"; listing tells whether node.listing is
\* there; title is marketplace_listing_title (<<>> when absent), which is not a
\* string when titleIsString is FALSE.
Edge(node, listing, id, is_sold, is_live, is_pending, is_hidden, title, titleIsString) ==
  [node |-> node, listing |-> listing, id |-> id, is_sold |-> is_sold,
   is_live |-> is_live, is_pending |-> is_pending, is_hidden |-> is_hidden,
   title |-> title, titleIsString |-> titleIsString]

UntitledListing == <<"U", "n", "t", "i", "t", "l", "e", "d">>

FbListing(listing) ==
  [id |-> listing.id, marketplace |-> "facebook",
   title |-> IF listing.title = <<>> THEN UntitledListing ELSE listing.title]

\* A parseListings without the title heuristic
TitleNotRead(title) == FALSE

\* parseListings: the title heuristic
TitleSaysSold(title) ==
  LET t == toUpperCase(title) IN
  \/ startsWith(t, <<"[", "S", "O", "L", "D", "]">>)
  \/ startsWith(t, <<"S", "O", "L", "D", " ", "-">>)
  \/ t = <<"S", "O", "L", "D">>

\* A parseListings that does not look at availability
AvailabilityIgnored(listing) == "push"

\* parseListings: what the body of the loop does with one edge when showSold is
\* false: "skip" (continue), "throw" (caught: continue) or "push"
Availability(listing) ==
  IF listing.is_sold THEN "skip"
  ELSE IF ~listing.is_live THEN "skip"
  ELSE IF listing.is_pending THEN "skip"
  ELSE IF listing.is_hidden THEN "skip"
  ELSE IF listing.title # <<>> /\ ~listing.titleIsString THEN "throw"
  ELSE IF TitleSaysSold(listing.title) THEN "skip"
  ELSE "push"

\* parseListings: the body of the loop
FbParseEdge(edge, showSold) ==
  IF edge.node # "story" THEN "skip"
  ELSE IF ~edge.listing THEN "skip"
  ELSE IF ~showSold THEN Availability(edge)
  ELSE "push"

RECURSIVE FbParseLoop(_, _, _, _)
FbParseLoop(edges, limit, showSold, listings) ==
  IF edges = <<>> \/ Len(listings) >= limit THEN listings
  ELSE FbParseLoop(Tail(edges), limit, showSold,
                   IF FbParseEdge(Head(edges), showSold) = "push"
                     THEN Append(listings, FbListing(Head(edges)))
                     ELSE listings)

\* A parseListings that cuts the feed to `limit` edges before it filters them
parseListingsCutFirst(edges, limit, showSold) ==
  FbParseLoop(SubSeq(edges, 1, IF Len(edges) < limit THEN Len(edges) ELSE limit),
              limit, showSold, <<>>)

\* FacebookMarketplace.parseListings
parseListings(edges, limit, showSold) == FbParseLoop(edges, limit, showSold, <<>>)

\* The body of a search query: edges (data.marketplace_search.feed_units.edges)
\* is "absent" (the path is missing or falsy), "notIterable" or "list".
FeedJson(edges, items) == [kind |-> "feed", edges |-> edges, items |-> items]

\* A search() that sends the search query without resolving the location
FbEnterUnresolved(obj, q) ==
  [Fresh("fbSearch", q) EXCEPT !.self = obj, !.key = cacheKey(FbLocation(q)),
                               !.pc = "fbSearchFetch"]

\* search() up to its first await on the adapter instance obj: resolveLocation
\* answers from the cache, and the search query is sent, or it sends a location
\* query.
FbEnter(obj, q) ==
  LET l == [Fresh("fbSearch", q) EXCEPT !.self = obj, !.key = cacheKey(FbLocation(q))] IN
  IF l.key \in DOMAIN locationCache[obj]
    THEN [l EXCEPT !.coords = locationCache[obj][l.key], !.pc = "fbSearchFetch"]
    ELSE [l EXCEPT !.pc = "fbLocFetch"]

\* The location queries sent upstream once a call has run up to l
SentAfter(l) ==
  IF l.pc = "fbLocFetch" THEN locCalls (+) SetToBag({l.key}) ELSE locCalls

\* A resolveLocation that caches what it found, null included
FbLocRespCachesAll(p, r) ==
  LET l == proc[p]
      place == LocationOf(r) IN
  /\ l.pc = "fbLocFetch"
  /\ locationCache' = [locationCache EXCEPT ![l.self] = (l.key :> place) @@ @]
  /\ IF place = 0
       THEN /\ proc' = [proc EXCEPT ![p] =
                 Return(l, createError("facebook", "Could not find location"))]
            /\ locMisses' = locMisses (+) SetToBag({l.key})
       ELSE /\ proc' = [proc EXCEPT ![p] = [l EXCEPT !.coords = place, !.pc = "fbSearchFetch"]]
            /\ UNCHANGED locMisses
  /\ UNCHANGED <<browserVars, locCalls, ebayVars, regVars, ncalls, leaked>>

\* resolveLocation resumes with the answer r to its location query
FbLocResp(p, r) ==
  LET l == proc[p]
      place == LocationOf(r) IN
  /\ l.pc = "fbLocFetch"
  /\ IF place = 0
       THEN /\ proc' = [proc EXCEPT ![p] =
                 Return(l, createError("facebook", "Could not find location"))]
            /\ locMisses' = locMisses (+) SetToBag({l.key})
            /\ UNCHANGED locationCache
       ELSE /\ locationCache' = [locationCache EXCEPT ![l.self] = (l.key :> place) @@ @]
            /\ proc' = [proc EXCEPT ![p] = [l EXCEPT !.coords = place, !.pc = "fbSearchFetch"]]
            /\ UNCHANGED locMisses
  /\ UNCHANGED <<browserVars, locCalls, ebayVars, regVars, ncalls, leaked>>

\* A search() that takes every body to have the path
HasFeedPathAlways(json) == TRUE

\* search(): response.data?.marketplace_search?.feed_units?.edges is truthy
HasFeedPath(json) == json.edges # "absent"

\* search() resumes with the answer r to its search query
FbSearchResp(p, r) ==
  LET l == [proc[p] EXCEPT !.resp = r]
      res == fetchGraphQL(r) IN
  /\ proc[p].pc = "fbSearchFetch"
  /\ Step(p, IF res.thrown THEN Throw(l, "fetchGraphQL")
             ELSE IF ~HasFeedPath(res.val)
               THEN Return(l, createError("facebook", "Unexpected response structure"))
             ELSE IF res.val.edges = "notIterable" THEN Throw(l, "TypeError")
             ELSE LET listings == parseListings(res.val.items, FbLimit(l.params),
                                                FbShowSold(l.params)) IN
                  Return(l, Outcome("facebook", TRUE, listings, NoError, Len(listings))))

\* The body of a photos query: whether ...details_page.target is there, and its
\* listing_photos (the uris; <<>> also stands for a value that is not an array)
PhotosJson(target, photos) == [kind |-> "photos", target |-> target, photos |-> photos]

\* The body of an info query: whether the target is there, and whether it has
\* redacted_description.text
InfoJson(target, text) == [kind |-> "info", target |-> target, text |-> text]

\* types.ts ListingDetails, of which id, description and images are kept
ListingDetails(id, description, images) ==
  [id |-> id, description |-> description, images |-> images]

\* getListingDetails after its await: the ListingDetails built from both bodies
FbDetailsOf(l) ==
  ListingDetails(l.listingId,
                 IF l.infoRes.json.target THEN l.infoRes.json.text ELSE "undefined",
                 IF l.photosRes.json.target THEN l.photosRes.json.photos ELSE <<>>)

\* getListingDetails up to `await Promise.all([...])`: both queries are sent
FbDetailsEnter(obj, id) ==
  [Fresh("fbDetails", NoParams) EXCEPT !.self = obj, !.listingId = id,
     !.photosRes = Settle("pending", [kind |-> "none"]),
     !.infoRes = Settle("pending", [kind |-> "none"]), !.pc = "fbDetailFetch"]

\* The other of the two queries
OtherQuery(which) == IF which = "photosRes" THEN "infoRes" ELSE "photosRes"

\* One of the two fetchGraphQL calls settles with the answer r. Promise.all
\* rejects as soon as one call rejects, and resolves once both have resolved;
\* getListingDetails has no try/catch, so the rejection leaves it.
FbDetailResp(p, which, r) ==
  LET l == proc[p]
      res == fetchGraphQL(r) IN
  /\ l.pc = "fbDetailFetch"
  /\ l[which].st = "pending"
  /\ Step(p, IF res.thrown
               THEN Throw([l EXCEPT ![which] = Settle("failed", [kind |-> "none"])], "fetchGraphQL")
             ELSE LET l2 == [l EXCEPT ![which] = Settle("ok", res.val)] IN
                  IF l[OtherQuery(which)].st = "pending" THEN l2
                  ELSE Return(l2, FbDetailsOf(l2)))

\* FacebookMarketplace.getListingDetails is called on the instance obj
FbGetListingDetails(p, obj, id) ==
  /\ Call(p, FbDetailsEnter(obj, id))
  /\ UNCHANGED <<browserVars, adapterVars>>

----------------------------------------------------------------------------
\* ebay.ts

\* Two ways the adapter is constructed: with both credentials, or without
EbayInstances == {"ebay1", "ebay2", "ebayNoCreds"}

\* this.clientId && this.clientSecret
HasCredentials(obj) == obj \in {"ebay1", "ebay2"}

EbayDefaultLimit == 20

EbayLimit(q) == IF q.limit = NoLimit THEN EbayDefaultLimit ELSE q.limit

\* getToken(): the buffer before expiry, in ms
TokenBuffer == 60000

\* A getToken() without the buffer before expiry
TokenValidNoBuffer(obj) ==
  accessToken[obj] # 0 /\ now < tokenExpiresAt[obj]

\* getToken(): this.accessToken && Date.now() < this.tokenExpiresAt - 60_000
TokenValid(obj) ==
  accessToken[obj] # 0 /\ now < tokenExpiresAt[obj] - TokenBuffer

\* The fetch the caller of getToken() sends once it has the token
AfterToken(o) == IF o = "ebayDetails" THEN "ebayItemFetch" ELSE "ebayFetch"

\* A caller that sends its request without calling getToken()
getTokenSkipped(l) == [l EXCEPT !.pc = AfterToken(l.op)]

\* getToken() up to its first await, called by the call that has run up to l: the
\* cached token, and search() sends its request with it, or a token exchange.
\* tokPrev, tokExp and tokAt keep what the test read.
getTokenEnter(l) ==
  LET m == [l EXCEPT !.tokPrev = accessToken[l.self],
                     !.tokExp = tokenExpiresAt[l.self], !.tokAt = now] IN
  IF TokenValid(l.self)
    THEN [m EXCEPT !.token = accessToken[l.self], !.pc = AfterToken(l.op)]
    ELSE [m EXCEPT !.exchanged = TRUE, !.pc = "ebayToken"]

\* search() up to its first await on the adapter instance obj
EbayEnter(obj, q) ==
  LET l == [Fresh("ebaySearch", q) EXCEPT !.self = obj] IN
  IF ~HasCredentials(obj)
    THEN Return(l, createError("ebay", "eBay credentials not configured"))
    ELSE getTokenEnter(l)

\* The OAuth endpoint's answer: fetch rejects, or the status is not ok, or the body
\* does not parse, or it grants a token for expires_in seconds.
TokenResponse(rejects, ok, parses, expires_in) ==
  [api |-> "oauth", rejects |-> rejects, ok |-> ok, parses |-> parses,
   expires_in |-> expires_in]

\* A getToken() that stores the new token and keeps the expiry it had cached
EbayTokenRespKeepsExpiry(p, r) ==
  LET l == proc[p] IN
  /\ l.pc = "ebayToken"
  /\ IF r.rejects \/ ~r.ok \/ ~r.parses
       THEN /\ proc' = [proc EXCEPT ![p] = Throw(l, "eBay OAuth failed")]
            /\ UNCHANGED <<accessToken, tokenExpiresAt, nTokens>>
       ELSE /\ nTokens' = nTokens + 1
            /\ accessToken' = [accessToken EXCEPT ![l.self] = nTokens + 1]
            /\ tokenExpiresAt' = [tokenExpiresAt EXCEPT ![l.self] =
                                    IF @ = 0 THEN now + r.expires_in * 1000 ELSE @]
            /\ proc' = [proc EXCEPT ![p] = [l EXCEPT !.token = nTokens + 1,
                                                     !.pc = AfterToken(l.op)]]
  /\ UNCHANGED <<browserVars, fbVars, now, regVars, ncalls, leaked>>

\* getToken() resumes with the answer r to its exchange; the endpoint issues a
\* token it has not issued before.
EbayTokenResp(p, r) ==
  LET l == proc[p] IN
  /\ l.pc = "ebayToken"
  /\ IF r.rejects \/ ~r.ok \/ ~r.parses
       THEN /\ proc' = [proc EXCEPT ![p] = Throw(l, "eBay OAuth failed")]
            /\ UNCHANGED <<accessToken, tokenExpiresAt, nTokens>>
       ELSE /\ nTokens' = nTokens + 1
            /\ accessToken' = [accessToken EXCEPT ![l.self] = nTokens + 1]
            /\ tokenExpiresAt' = [tokenExpiresAt EXCEPT ![l.self] = now + r.expires_in * 1000]
            /\ proc' = [proc EXCEPT ![p] = [l EXCEPT !.token = nTokens + 1,
                                                     !.pc = AfterToken(l.op)]]
  /\ UNCHANGED <<browserVars, fbVars, now, regVars, ncalls, leaked>>

\* An item of itemSummaries: null, or an object
EbayItem(id) == [isNull |-> FALSE, id |-> id]
NullEbayItem == [isNull |-> TRUE, id |-> 0]

EbayListing(item) == [id |-> item.id, marketplace |-> "ebay"]

\* EbayMarketplace.parseListings: try/catch around the body of each item
RECURSIVE EbayParseLoop(_, _, _)
EbayParseLoop(items, limit, listings) ==
  IF items = <<>> \/ Len(listings) >= limit THEN listings
  ELSE EbayParseLoop(Tail(items), limit,
                     IF Head(items).isNull THEN listings
                     ELSE Append(listings, EbayListing(Head(items))))

\* The Browse API's answer: fetch rejects, or the status is not ok, or the body
\* cannot be read, or it is {itemSummaries, total}; summaries is "absent" or
\* "list", total is NoTotal when absent.
BrowseResponse(rejects, ok, parses, summaries, items, total) ==
  [api |-> "browse", rejects |-> rejects, ok |-> ok, parses |-> parses,
   summaries |-> summaries, items |-> items, total |-> total]

\* search() resumes with the answer r to its Browse request
EbayFetchResp(p, r) ==
  LET l == [proc[p] EXCEPT !.resp = r] IN
  /\ proc[p].pc = "ebayFetch"
  /\ Step(p, IF r.rejects \/ ~r.parses THEN Throw(l, "fetch")
             ELSE IF ~r.ok THEN Return(l, createError("ebay", "eBay API returned"))
             ELSE LET items == IF r.summaries = "absent" THEN <<>> ELSE r.items
                      listings == EbayParseLoop(items, EbayLimit(l.params), <<>>) IN
                  Return(l, Outcome("ebay", TRUE, listings, NoError,
                                    IF r.total = NoTotal THEN Len(listings) ELSE r.total)))

\* Time passes
Tick ==
  /\ now < MaxTicks * TickMs
  /\ now' = now + TickMs
  /\ UNCHANGED <<browserVars, fbVars, accessToken, tokenExpiresAt, nTokens, regVars, callVars>>

----------------------------------------------------------------------------
\* marketplaces/index.ts: the registry

\* An entry of the registry Map: the adapter's name (the key) and the instance
Entry(name, obj) == [name |-> name, obj |-> obj]

Names(entries) == {entries[i].name : i \in DOMAIN entries}

\* A registry that puts the newest adapter first
registerFirst(entries, mp) == <<mp>> \o entries

\* registerMarketplace: marketplaces.set(marketplace.name, marketplace).  A Map
\* keeps a key at the position of its first insertion.
registerMarketplace(entries, mp) ==
  IF mp.name \in Names(entries)
    THEN [i \in DOMAIN entries |-> IF entries[i].name = mp.name THEN mp ELSE entries[i]]
    ELSE Append(entries, mp)

\* getAllMarketplaces: Array.from(marketplaces.values())
getAllMarketplaces == marketplaces

\* process.env.MARKETPLACES: not set, or the pieces of its value between the
\* commas
NoList == [set |-> FALSE, pieces |-> <<>>]
List(pieces) == [set |-> TRUE, pieces |-> pieces]

\* process.env: id and secret tell whether EBAY_CLIENT_ID and EBAY_CLIENT_SECRET
\* are set to a non-empty value.
Env(list, id, secret) == [MARKETPLACES |-> list, id |-> id, secret |-> secret]

\* An initializeMarketplaces that does not look at the credentials
CredentialsNotAsked(e) == TRUE

\* !(!process.env.EBAY_CLIENT_ID || !process.env.EBAY_CLIENT_SECRET)
CredentialsSet(e) == e.id /\ e.secret

\* new EbayMarketplace(): the constructor reads the credentials from process.env
EbayFromEnv == IF CredentialsSet(env) THEN "ebay1" ELSE "ebayNoCreds"

\* initializeMarketplaces of the registry without a MARKETPLACES list:
\* new FacebookMarketplace(), then new EbayMarketplace().  It runs once, when
\* the server starts.
InitializeMarketplaces ==
  /\ ~initialized
  /\ \A p \in Procs : proc[p].pc = "idle"
  /\ Len(registered) + 2 <= MaxRegistrations
  /\ marketplaces' = registerMarketplace(registerMarketplace(marketplaces,
                        Entry("facebook", "fb1")), Entry("ebay", EbayFromEnv))
  /\ registered' = registered \o <<"facebook", "ebay">>
  /\ initialized' = TRUE
  /\ UNCHANGED <<browserVars, fbVars, ebayVars, env, callVars>>

\* allMarketplaces: the known names, as spelled, and their constructors
allMarketplaces ==
  <<[name |-> "facebook", chars |-> <<"f", "a", "c", "e", "b", "o", "o", "k">>, obj |-> "fb1"],
    [name |-> "ebay", chars |-> <<"e", "b", "a", "y">>, obj |-> "ebay1"]>>

\* process.env.MARKETPLACES?.split(',').map(s => s.trim().toLowerCase())
\*   .filter(Boolean) ?? Object.keys(allMarketplaces)
Enabled(e) ==
  IF ~e.MARKETPLACES.set
    THEN [k \in DOMAIN allMarketplaces |-> allMarketplaces[k].chars]
    ELSE LET IsName(n) == n # <<>>
             pieces == e.MARKETPLACES.pieces IN
         SelectSeq([k \in DOMAIN pieces |-> toLowerCase(trim(pieces[k]))], IsName)

\* for (const name of enabled) { ... }: the adapters passed to
\* registerMarketplace, in order; a name that is not known is skipped, and so is
\* ebay without both credentials
RECURSIVE Registrations(_, _)
Registrations(names, e) ==
  IF names = <<>> THEN <<>>
  ELSE LET name == Head(names)
           known == {k \in DOMAIN allMarketplaces : allMarketplaces[k].chars = name} IN
       IF known = {} THEN Registrations(Tail(names), e)
       ELSE LET factory == allMarketplaces[CHOOSE k \in known : TRUE] IN
            IF factory.name = "ebay" /\ ~CredentialsSet(e)
              THEN Registrations(Tail(names), e)
              ELSE <<Entry(factory.name, factory.obj)>> \o Registrations(Tail(names), e)

RECURSIVE RegisterAll(_, _)
RegisterAll(entries, mps) ==
  IF mps = <<>> THEN entries
  ELSE RegisterAll(registerMarketplace(entries, Head(mps)), Tail(mps))

\* initializeMarketplaces of the registry with the MARKETPLACES list.  It runs
\* once, when the server starts.
InitializeEnabled ==
  LET mps == Registrations(Enabled(env), env) IN
  /\ ~initialized
  /\ \A p \in Procs : proc[p].pc = "idle"
  /\ marketplaces' = RegisterAll(marketplaces, mps)
  /\ registered' = registered \o [k \in DOMAIN mps |-> mps[k].name]
  /\ initialized' = TRUE
  /\ UNCHANGED <<browserVars, fbVars, ebayVars, env, callVars>>

\* The embedding code registers an adapter of its own or one of the adapters the
\* package exports, under a name that is not registered yet, once the server
\* has registered its own and before it serves requests
RegisterMarketplace(mp) ==
  /\ initialized
  /\ mp.name \notin Names(marketplaces)
  /\ \A p \in Procs : proc[p].pc = "idle"
  /\ Len(registered) < MaxRegistrations
  /\ marketplaces' = registerMarketplace(marketplaces, mp)
  /\ registered' = Append(registered, mp.name)
  /\ UNCHANGED <<browserVars, fbVars, ebayVars, env, initialized, callVars>>

----------------------------------------------------------------------------
\* An adapter that is not part of the package: its search() resolves to a
\* well-formed Outcome or throws.

CustomListing == [id |-> 1, marketplace |-> "custom"]

CustomEnter(q) == [Fresh("customSearch", q) EXCEPT !.pc = "customWait"]

CustomResp(p, throws) ==
  /\ proc[p].pc = "customWait"
  /\ Step(p, IF throws THEN Throw(proc[p], "Error: custom adapter failed")
             ELSE Return(proc[p], Outcome("custom", TRUE, <<CustomListing>>, NoError, 1)))

----------------------------------------------------------------------------
\* The search_marketplace tool handler (index.ts), marketplace "all"

HandlerDefaultLimit == 20

\* const searchParams = { location: params.location || 'san francisco',
\*   limit: params.limit || 20, showSold: params.showSold || false, ... }
HandlerParams(args) ==
  Params(IF args.limit = NoLimit THEN HandlerDefaultLimit ELSE args.limit,
         IF args.showSold = "true" THEN "true" ELSE "false",
         IF args.location \in {NoLocation, <<>>} THEN FbDefaultLocation ELSE args.location)

\* mp.search(searchParams) up to its first await
SearchOn(mp, q) ==
  CASE mp.name = "facebook" -> FbEnter(mp.obj, q)
    [] mp.name = "ebay" -> EbayEnter(mp.obj, q)
    [] mp.name = "depop" -> EnterNewPage(Fresh("depopSearch", q))
    [] mp.name = "poshmark" -> EnterNewPage(Fresh("poshSearch", q))
    [] OTHER -> CustomEnter(q)

\* catch (error) { results.push({ marketplace: mp.name, success: false,
\*   listings: [], error: String(error) }) }
CatchOutcome(name, e) == Outcome(name, FALSE, <<>>, e, NoTotal)

\* A handler whose catch block pushes nothing
AggPushSkip(results, mp, ret) ==
  IF ret.kind = "value" THEN Append(results, ret.val) ELSE results

\* The body of the loop once `await mp.search(searchParams)` has settled as ret
AggPush(results, mp, ret) ==
  Append(results, IF ret.kind = "value" THEN ret.val
                  ELSE CatchOutcome(mp.name, ret.val.error))

\* A handler that calls every adapter's search when its loop starts
InvokedAll(mps, k) == DOMAIN mps

\* The adapters whose search() the handler calls when its loop reaches index k
Invoked(mps, k) == {k}

\* for (const mp of getAllMarketplaces()) { ... await mp.search(searchParams) ... }
\* from index k on, up to the next await: the locals l of the handler go on as
\* the locals of mps[k]'s search, or the loop is over.
AggLoop(l, k) ==
  IF k > Len(l.mps) THEN [l EXCEPT !.i = k, !.pc = "done"]
  ELSE [SearchOn(l.mps[k], l.params) EXCEPT
          !.top = "all", !.mps = l.mps, !.i = k, !.results = l.results,
          !.returned = l.returned, !.started = l.started \cup Invoked(l.mps, k)]

\* The pages left open, once a call that ran up to l goes on as m
LeakedAfter(l, m) ==
  leaked + (IF l.pageOf # 0 /\ m.pageOf = 0 THEN 1 ELSE 0)

\* A search_marketplace request with marketplace "all" arrives
AggSearch(p, args) ==
  LET l == [Fresh("none", HandlerParams(args)) EXCEPT
              !.top = "all", !.mps = getAllMarketplaces]
      m == AggLoop(l, 1) IN
  /\ Idle(p)
  /\ ncalls < MaxCalls
  /\ ncalls' = ncalls + 1
  /\ proc' = [proc EXCEPT ![p] = m]
  /\ leaked' = leaked + (IF proc[p].pageOf # 0 THEN 1 ELSE 0)
  /\ locCalls' = SentAfter(m)
  /\ UNCHANGED <<browserVars, locationCache, locMisses, ebayVars, regVars>>

\* The handler resumes when the search it awaits has settled
AggNext(p) ==
  LET l == proc[p]
      l1 == [l EXCEPT !.results = AggPush(l.results, l.mps[l.i], l.ret),
                      !.returned = Append(l.returned, l.ret)]
      m == AggLoop(l1, l.i + 1) IN
  /\ l.top = "all"
  /\ l.pc = "done"
  /\ l.i <= Len(l.mps)
  /\ proc' = [proc EXCEPT ![p] = m]
  /\ leaked' = LeakedAfter(l, m)
  /\ locCalls' = SentAfter(m)
  /\ UNCHANGED <<browserVars, locationCache, locMisses, ebayVars, regVars, ncalls>>

----------------------------------------------------------------------------
\* getListingDetails of the eBay and Depop adapters, and the get_listing_details
\* tool handler (index.ts)

\* EbayMarketplace.getListingDetails up to its first await
EbayDetailsEnter(obj, id) ==
  getTokenEnter([Fresh("ebayDetails", NoParams) EXCEPT !.self = obj, !.listingId = id])

\* `await fetch(.../item/...)` resumes: the item, or an exception (fetch rejects,
\* the status is not ok, the body does not parse); there is no try/catch
EbayItemResp(p, ok) ==
  /\ proc[p].pc = "ebayItemFetch"
  /\ Step(p, IF ok THEN Return(proc[p], ListingDetails(proc[p].listingId, "text", <<>>))
             ELSE Throw(proc[p], "eBay API returned"))

\* DepopMarketplace.getListingDetails up to its first await
DepopDetailsEnter(obj, id) ==
  EnterNewPage([Fresh("depopDetails", NoParams) EXCEPT !.self = obj, !.listingId = id])

\* `await page.goto(...)`, and then each of the three `await page.evaluate(...)`,
\* resumes or rejects; after the last one the details are returned.  There is
\* no catch, and the finally block closes the page.
DepopDetailStep(p) ==
  LET l == proc[p]
      next == CASE l.pc = "depopDetailGoto" -> "depopJsonLd"
                [] l.pc = "depopJsonLd" -> "depopExtended"
                [] l.pc = "depopExtended" -> "depopSeller"
                [] OTHER -> "return" IN
  /\ l.pc \in {"depopDetailGoto", "depopJsonLd", "depopExtended", "depopSeller"}
  /\ \/ Step(p, IF next = "return"
                  THEN Return(l, ListingDetails(l.listingId, "text", <<>>))
                  ELSE [l EXCEPT !.pc = next])
     \/ Step(p, Throw(l, "page operation failed"))

\* The adapter the handler takes from the registry:
\*   if (targetMp === 'ebay') ... else if (targetMp === 'depop') ... else facebook
Dispatch(targetMp) ==
  IF targetMp = "ebay" THEN "ebay"
  ELSE IF targetMp = "depop" THEN "depop"
  ELSE "facebook"

\* getMarketplace(name): the entries registered under the name (none, or one)
getMarketplace(name) == {marketplaces[k] : k \in {i \in DOMAIN marketplaces : marketplaces[i].name = name}}

\* The handler up to its first await.  Without a listingId it answers with an
\* error; when the registry has no adapter under the name it looks up, the call
\* on undefined throws, and the catch answers with an error.
DetailsEnter(mpName, id) ==
  LET targetMp == IF mpName = "" THEN "facebook" ELSE mpName
      found == getMarketplace(Dispatch(targetMp))
      l == [Fresh("getListingDetails", NoParams) EXCEPT !.listingId = id, !.asked = mpName] IN
  IF id = 0 THEN Finished([l EXCEPT !.ret = Raised("Missing required parameter: listingId")])
  ELSE IF found = {} THEN Finished([l EXCEPT !.ret = Raised("TypeError"), !.threw = TRUE])
  ELSE LET mp == CHOOSE mp \in found : TRUE
           m == CASE mp.name = "ebay" -> EbayDetailsEnter(mp.obj, id)
                  [] mp.name = "depop" -> DepopDetailsEnter(mp.obj, id)
                  [] OTHER -> FbDetailsEnter(mp.obj, id) IN
       [m EXCEPT !.asked = mpName]

\* A get_listing_details request arrives
GetListingDetails(p, mpName, id) ==
  /\ initialized
  /\ Call(p, DetailsEnter(mpName, id))
  /\ UNCHANGED <<browserVars, adapterVars>>

----------------------------------------------------------------------------
\* Inputs

\* All sequences over S of length at most n
SeqsUpTo(S, n) == UNION {[1..k -> S] : k \in 0..n}

Limits == {NoLimit, 1, 2}

\* An upstream total that differs from every list length of the model
UpstreamTotal == 7

DepopProducts == {NullProduct, Product(0), Product(1), Product(2)}

DepopPayloads ==
  {DepopPayload("HTTP 403", "falsy", "absent", <<>>, NoTotal),
   DepopPayload(NoError, "falsy", "absent", <<>>, NoTotal),
   DepopPayload(NoError, "truthy", "absent", <<>>, NoTotal),
   DepopPayload(NoError, "truthy", "notIterable", <<>>, NoTotal)}
  \cup {DepopPayload(NoError, "truthy", "list", items, total) :
          items \in SeqsUpTo(DepopProducts, MaxItems), total \in {NoTotal, UpstreamTotal}}

DepopPayloadsFew ==
  {DepopPayload("HTTP 403", "falsy", "absent", <<>>, NoTotal),
   DepopPayload(NoError, "truthy", "list", <<Product(1)>>, NoTotal)}

PoshItems == {NullPoshItem, PoshItem(0), PoshItem(1)}

PoshBodies ==
  {NoApiData,
   PoshBody("absent", <<>>, NoTotal),
   PoshBody("notArray", <<>>, NoTotal),
   PoshBody("array", <<PoshItem(1)>>, UpstreamTotal)}
  \cup {PoshBody("array", items, NoTotal) : items \in SeqsUpTo(PoshItems, MaxItems)}

\* DOM slugs differ from the ids of the API payloads
Cards == {Card(0), Card(11), Card(12)}

\* A response that passes the handler's three tests and parses
Matching(body) == Response(TRUE, HttpOk, TRUE, TRUE, body)

\* Responses that fail one of the tests, or whose body does not parse
NotMatching ==
  LET body == PoshBody("array", <<PoshItem(2)>>, NoTotal) IN
    {Response(FALSE, HttpOk, TRUE, TRUE, body),
     Response(TRUE, 404, TRUE, TRUE, body),
     Response(TRUE, HttpOk, FALSE, TRUE, body),
     Response(TRUE, HttpOk, TRUE, FALSE, NoApiData)}

Responses == {Matching(body) : body \in PoshBodies} \cup NotMatching

ResponsesFew ==
  {Matching(PoshBody("array", <<PoshItem(1)>>, NoTotal)),
   Response(FALSE, HttpOk, TRUE, TRUE, PoshBody("array", <<PoshItem(2)>>, NoTotal))}

\* ---- Facebook

NoJson == [kind |-> "none"]

\* The ways fetchGraphQL fails
GqlFailures ==
  {GqlResponse(TRUE, FALSE, FALSE, FALSE, NoJson),
   GqlResponse(FALSE, FALSE, TRUE, FALSE, NoJson),
   GqlResponse(FALSE, TRUE, FALSE, FALSE, NoJson),
   GqlResponse(FALSE, TRUE, TRUE, TRUE, NoJson)}

GqlOk(json) == GqlResponse(FALSE, TRUE, TRUE, FALSE, json)

Places == {1, 2}

LocResponses ==
  GqlFailures
  \cup {GqlOk(LocJson("absent", FALSE, 0)), GqlOk(LocJson("empty", FALSE, 0)),
        GqlOk(LocJson("list", FALSE, 0))}
  \cup {GqlOk(LocJson("list", TRUE, place)) : place \in Places}

LocResponsesFew ==
  {GqlResponse(TRUE, FALSE, FALSE, FALSE, NoJson), GqlOk(LocJson("list", TRUE, 1))}

SanFrancisco ==
  <<"S", "a", "n", " ", "F", "r", "a", "n", "c", "i", "s", "c", "o">>

SanFranciscoPadded ==
  <<" ", "s", "a", "n", " ", "f", "r", "a", "n", "c", "i", "s", "c", "o", " ">>

\* Longest generated location query
MaxQueryLen == 2

Queries ==
  {NoLocation, SanFrancisco, SanFranciscoPadded}
  \cup SeqsUpTo({"A", " "}, MaxQueryLen)

\* A listing that is for sale, with the title t
Available(t) == Edge("story", TRUE, 0, FALSE, TRUE, FALSE, FALSE, t, TRUE)

Titles ==
  {<<>>,
   <<"x">>,
   <<"[", "s", "o", "l", "d", "]", " ", "x">>,
   <<"S", "O", "L", "D", " ", "-", " ", "x">>,
   <<"S", "o", "l", "d">>,
   <<"S", "O", "L", "D", "I", "E", "R">>}

\* The edges of the feed, before their ids are given
EdgeKinds ==
  {Edge("null", FALSE, 0, FALSE, TRUE, FALSE, FALSE, <<>>, TRUE),
   Edge("other", TRUE, 0, FALSE, TRUE, FALSE, FALSE, <<"x">>, TRUE),
   Edge("story", FALSE, 0, FALSE, TRUE, FALSE, FALSE, <<>>, TRUE),
   Edge("story", TRUE, 0, FALSE, TRUE, FALSE, FALSE, <<"5">>, FALSE),
   Edge("story", TRUE, 0, TRUE, TRUE, FALSE, FALSE, <<"x">>, TRUE),
   Edge("story", TRUE, 0, FALSE, FALSE, FALSE, FALSE, <<"x">>, TRUE),
   Edge("story", TRUE, 0, FALSE, TRUE, TRUE, FALSE, <<"x">>, TRUE),
   Edge("story", TRUE, 0, FALSE, TRUE, FALSE, TRUE, <<"x">>, TRUE),
   Edge("story", TRUE, 0, TRUE, FALSE, TRUE, TRUE, <<"S", "O", "L", "D">>, TRUE)}
  \cup {Available(t) : t \in Titles}

\* The listing at position i of a feed has the id i
WithIds(edges) == [i \in DOMAIN edges |-> [edges[i] EXCEPT !.id = i]]

Feeds == {WithIds(edges) : edges \in SeqsUpTo(EdgeKinds, MaxItems)}

FeedResponses ==
  GqlFailures
  \cup {GqlOk(FeedJson("absent", <<>>)), GqlOk(FeedJson("notIterable", <<>>))}
  \cup {GqlOk(FeedJson("list", feed)) : feed \in Feeds}

FeedResponsesFew ==
  {GqlResponse(FALSE, FALSE, TRUE, FALSE, NoJson),
   GqlOk(FeedJson("absent", <<>>)),
   GqlOk(FeedJson("list", WithIds(<<Available(<<"x">>)>>)))}

\* ---- eBay

\* Token lifetimes, in seconds
Lifetimes == {30, 90, 120}

TokenResponses ==
  {TokenResponse(TRUE, FALSE, FALSE, 0), TokenResponse(FALSE, FALSE, TRUE, 0),
   TokenResponse(FALSE, TRUE, FALSE, 0)}
  \cup {TokenResponse(FALSE, TRUE, TRUE, t) : t \in Lifetimes}

TokenResponsesFew ==
  {TokenResponse(FALSE, FALSE, TRUE, 0), TokenResponse(FALSE, TRUE, TRUE, 120)}

BrowseResponsesFew ==
  {BrowseResponse(TRUE, FALSE, FALSE, "absent", <<>>, NoTotal),
   BrowseResponse(FALSE, FALSE, TRUE, "absent", <<>>, NoTotal),
   BrowseResponse(FALSE, TRUE, TRUE, "list", <<EbayItem(1)>>, NoTotal)}

\* ---- The registry

OtherAdapters ==
  {Entry("depop", "depop1"), Entry("poshmark", "poshmark1"), Entry("custom", "custom1")}

----------------------------------------------------------------------------
\* The state after the modules are loaded

InitProgram ==
  /\ browser = 0
  /\ inst = <<>>
  /\ nInst = 0
  /\ closing = 0
  /\ proc = [p \in Procs |-> InitProc]
  /\ ncalls = 0
  /\ leaked = 0
  /\ locationCache = [i \in FbInstances |-> <<>>]
  /\ locCalls = EmptyBag
  /\ locMisses = EmptyBag
  /\ accessToken = [i \in EbayInstances |-> 0]
  /\ tokenExpiresAt = [i \in EbayInstances |-> 0]
  /\ now = 0
  /\ nTokens = 0
  /\ marketplaces = <<>>
  /\ registered = <<>>
  /\ initialized = FALSE

\* The machine the server runs on
InitBrowser ==
  /\ InitProgram
  /\ platform = "linux"
  /\ envPath = NoPath
  /\ env = Env(NoList, TRUE, TRUE)
  /\ existing \in {{}, {"/usr/bin/chromium"}}

NextBrowser ==
  \/ \E p \in Procs : DepopSearch(p, Params(1, "absent", <<>>))
  \/ \E p \in Procs : LaunchDone(p)
  \/ \E p \in Procs : BNewPage(p)
  \/ \E p \in Procs : SetViewport(p)
  \/ \E p \in Procs : PageClose(p)
  \/ \E p \in Procs : DepopGoto(p)
  \/ \E p \in Procs : Awaits(p, "depopEval") /\ \E r \in DepopPayloadsFew : DepopEval(p, r)
  \/ \E p \in Procs : DepopEvalFails(p)
  \/ \E i \in DOMAIN inst : Disconnect(i)
  \/ CloseBrowserStart
  \/ CloseBrowserDone

\* Two callers of the Depop adapter share the browser session manager.
SpecBrowser == InitBrowser /\ [][NextBrowser]_vars

NextPosh ==
  \/ \E q \in {Params(limit, "absent", <<>>) : limit \in Limits} : PoshSearch("p1", q)
  \/ LaunchDone("p1")
  \/ BNewPage("p1")
  \/ SetViewport("p1")
  \/ PageClose("p1")
  \/ Listening("p1") /\ \E r \in Responses : PoshResponse("p1", r)
  \/ PoshGoto("p1")
  \/ PoshGrace("p1")
  \/ PoshWaitSel("p1")
  \/ Awaits("p1", "poshDomEval") /\ \E cards \in SeqsUpTo(Cards, MaxItems) : PoshDomEval("p1", cards)
  \/ PoshDomEvalFails("p1")
  \/ \E i \in DOMAIN inst : Disconnect(i)

\* One caller of the Poshmark adapter, and the responses its page sees.
SpecPosh == InitBrowser /\ [][NextPosh]_vars

\* The machines and environments the session manager is started on: a platform
\* with or without a list of its own, some of the listed files present, and
\* PUPPETEER_EXECUTABLE_PATH unset, empty, naming a file, or naming none.
InitExe ==
  /\ InitProgram
  /\ platform \in {"linux", "darwin", "freebsd"}
  /\ existing \in SUBSET {"/usr/bin/google-chrome-stable", "/usr/bin/chromium",
                          "mac/Chromium", "/opt/chrome"}
  /\ envPath \in {NoPath, "", "/opt/chrome", "/opt/missing"}
  /\ env = Env(NoList, TRUE, TRUE)

NextExe ==
  \/ DepopSearch("p1", Params(1, "absent", <<>>))
  \/ LaunchDone("p1")
  \/ BNewPage("p1")
  \/ SetViewport("p1")
  \/ PageClose("p1")
  \/ DepopGoto("p1")
  \/ Awaits("p1", "depopEval") /\ \E r \in DepopPayloadsFew : DepopEval("p1", r)
  \/ DepopEvalFails("p1")
  \/ \E i \in DOMAIN inst : Disconnect(i)

\* One caller of the session manager on each machine and environment.
SpecExe == InitExe /\ [][NextExe]_vars

\* The server's machine has a browser
InitServer ==
  /\ InitProgram
  /\ platform = "linux"
  /\ envPath = NoPath
  /\ env = Env(NoList, TRUE, TRUE)
  /\ existing = {"/usr/bin/chromium"}

\* The server's machine, with the eBay credentials in the environment or not
InitRegistry ==
  /\ InitProgram
  /\ platform = "linux"
  /\ envPath = NoPath
  /\ env \in {Env(NoList, TRUE, TRUE), Env(NoList, FALSE, FALSE)}
  /\ existing = {"/usr/bin/chromium"}

\* A direct call of search() on the Facebook adapter instance obj
FbSearch(p, obj, q) ==
  /\ Call(p, FbEnter(obj, q))
  /\ locCalls' = SentAfter(FbEnter(obj, q))
  /\ UNCHANGED <<browserVars, locationCache, locMisses, ebayVars, regVars>>

\* A direct call of search() on the eBay adapter instance obj
EbaySearch(p, obj, q) ==
  /\ Call(p, EbayEnter(obj, q))
  /\ UNCHANGED <<browserVars, adapterVars>>

\* A direct call of search() while no other call is running
FbSearchAlone(p, obj, q) ==
  /\ \A o \in Procs \ {p} : Idle(o)
  /\ FbSearch(p, obj, q)

NextLoc ==
  \/ \E p \in Procs, q \in Queries : FbSearchAlone(p, "fb1", Params(NoLimit, "absent", q))
  \/ \E p \in Procs : Awaits(p, "fbLocFetch") /\ \E r \in LocResponses : FbLocResp(p, r)
  \/ \E p \in Procs : FbSearchResp(p, GqlOk(FeedJson("list", <<>>)))

\* Two callers search Facebook Marketplace, one search after another.
SpecLoc == InitServer /\ [][NextLoc]_vars

NextParse ==
  \/ \E limit \in Limits, showSold \in {"absent", "false", "true"} :
       FbSearch("p1", "fb1", Params(limit, showSold, NoLocation))
  \/ Awaits("p1", "fbLocFetch") /\ \E r \in LocResponsesFew : FbLocResp("p1", r)
  \/ Awaits("p1", "fbSearchFetch") /\ \E r \in FeedResponses : FbSearchResp("p1", r)

\* One caller searches Facebook Marketplace, and the feed is any feed.
SpecParse == InitServer /\ [][NextParse]_vars

NextTok ==
  \/ \E p \in Procs, obj \in {"ebay1", "ebayNoCreds"} :
       EbaySearch(p, obj, Params(NoLimit, "absent", NoLocation))
  \/ \E p \in Procs : Awaits(p, "ebayToken") /\ \E r \in TokenResponses : EbayTokenResp(p, r)
  \/ \E p \in Procs : Awaits(p, "ebayFetch") /\ \E r \in BrowseResponsesFew : EbayFetchResp(p, r)
  \/ Tick

\* Two callers search eBay while time passes.
SpecTok == InitServer /\ [][NextTok]_vars

AggArgs == {Params(NoLimit, "absent", NoLocation)}

NextAgg ==
  \/ InitializeMarketplaces
  \/ \E mp \in OtherAdapters : RegisterMarketplace(mp)
  \/ \E args \in AggArgs : AggSearch("p1", args)
  \/ AggNext("p1")
  \/ Awaits("p1", "fbLocFetch") /\ \E r \in LocResponsesFew : FbLocResp("p1", r)
  \/ Awaits("p1", "fbSearchFetch") /\ \E r \in FeedResponsesFew : FbSearchResp("p1", r)
  \/ Awaits("p1", "ebayToken") /\ \E r \in TokenResponsesFew : EbayTokenResp("p1", r)
  \/ Awaits("p1", "ebayFetch") /\ \E r \in BrowseResponsesFew : EbayFetchResp("p1", r)
  \/ LaunchDone("p1")
  \/ BNewPage("p1")
  \/ SetViewport("p1")
  \/ PageClose("p1")
  \/ DepopGoto("p1")
  \/ Awaits("p1", "depopEval") /\ \E r \in DepopPayloadsFew : DepopEval("p1", r)
  \/ DepopEvalFails("p1")
  \/ Listening("p1") /\ \E r \in ResponsesFew : PoshResponse("p1", r)
  \/ PoshGoto("p1")
  \/ PoshGrace("p1")
  \/ PoshWaitSel("p1")
  \/ Awaits("p1", "poshDomEval") /\ \E cards \in {<<>>, <<Card(11)>>} : PoshDomEval("p1", cards)
  \/ PoshDomEvalFails("p1")
  \/ \E throws \in BOOLEAN : CustomResp("p1", throws)

\* The server: adapters are registered, and search_marketplace requests for all
\* marketplaces are served one after another.
SpecAgg == InitRegistry /\ [][NextAgg]_vars

BrowseResponses ==
  BrowseResponsesFew
  \cup {BrowseResponse(FALSE, TRUE, TRUE, "list", items, NoTotal) :
          items \in SeqsUpTo({NullEbayItem, EbayItem(1), EbayItem(2)}, MaxItems)}

ItemArgs == {Params(limit, "absent", NoLocation) : limit \in {NoLimit, 1}}

NextItems ==
  \/ \E q \in ItemArgs : FbSearch("p1", "fb1", q)
  \/ Awaits("p1", "fbLocFetch") /\ \E r \in LocResponsesFew : FbLocResp("p1", r)
  \/ Awaits("p1", "fbSearchFetch") /\ \E r \in FeedResponses : FbSearchResp("p1", r)
  \/ \E q \in ItemArgs : EbaySearch("p1", "ebay1", q)
  \/ Awaits("p1", "ebayToken") /\ \E r \in TokenResponsesFew : EbayTokenResp("p1", r)
  \/ Awaits("p1", "ebayFetch") /\ \E r \in BrowseResponses : EbayFetchResp("p1", r)
  \/ \E q \in ItemArgs : DepopSearch("p1", q)
  \/ \E q \in ItemArgs : PoshSearch("p1", q)
  \/ LaunchDone("p1")
  \/ BNewPage("p1")
  \/ SetViewport("p1")
  \/ PageClose("p1")
  \/ DepopGoto("p1")
  \/ Awaits("p1", "depopEval") /\ \E r \in DepopPayloads : DepopEval("p1", r)
  \/ DepopEvalFails("p1")
  \/ Listening("p1") /\ \E r \in Responses : PoshResponse("p1", r)
  \/ PoshGoto("p1")
  \/ PoshGrace("p1")
  \/ PoshWaitSel("p1")
  \/ Awaits("p1", "poshDomEval") /\ \E cards \in SeqsUpTo(Cards, MaxItems) : PoshDomEval("p1", cards)
  \/ PoshDomEvalFails("p1")

\* One caller searches each of the four adapters, and the result sets hold
\* items of every kind.
SpecItems == InitServer /\ [][NextItems]_vars

NextEbay ==
  \/ \E p \in Procs : EbaySearch(p, "ebay1", Params(NoLimit, "absent", NoLocation))
  \/ \E p \in Procs :
       Call(p, EbayDetailsEnter("ebay1", 1)) /\ UNCHANGED <<browserVars, adapterVars>>
  \/ \E p \in Procs : Awaits(p, "ebayToken") /\ \E r \in TokenResponses : EbayTokenResp(p, r)
  \/ \E p \in Procs : Awaits(p, "ebayFetch") /\ \E r \in BrowseResponsesFew : EbayFetchResp(p, r)
  \/ \E p \in Procs, ok \in BOOLEAN : EbayItemResp(p, ok)
  \/ Tick

\* Two callers of the eBay adapter, searching or fetching details, while time
\* passes.
SpecEbay == InitServer /\ [][NextEbay]_vars

NextPages ==
  \/ \E p \in Procs : DepopSearch(p, Params(1, "absent", <<>>))
  \/ PoshSearch("p1", Params(1, "absent", <<>>))
  \/ Call("p2", DepopDetailsEnter("depop1", 1)) /\ UNCHANGED <<browserVars, adapterVars>>
  \/ \E p \in Procs : LaunchDone(p)
  \/ \E p \in Procs : BNewPage(p)
  \/ \E p \in Procs : SetViewport(p)
  \/ \E p \in Procs : PageClose(p)
  \/ \E p \in Procs : DepopGoto(p)
  \/ \E p \in Procs : Awaits(p, "depopEval") /\ \E r \in DepopPayloadsFew : DepopEval(p, r)
  \/ \E p \in Procs : DepopEvalFails(p)
  \/ DepopDetailStep("p2")
  \/ Listening("p1") /\ PoshResponse("p1", Matching(PoshBody("array", <<PoshItem(1)>>, NoTotal)))
  \/ PoshGoto("p1")
  \/ PoshGrace("p1")
  \/ PoshWaitSel("p1")
  \/ Awaits("p1", "poshDomEval") /\ PoshDomEval("p1", <<Card(11)>>)
  \/ PoshDomEvalFails("p1")
  \/ \E i \in DOMAIN inst : Disconnect(i)
  \/ CloseBrowserStart
  \/ CloseBrowserDone

\* Two callers of the adapters that drive the browser, while the embedding
\* code may call closeBrowser and the browser may disconnect.
SpecPages == InitServer /\ [][NextPages]_vars

\* Longest formatted price, the two examples apart
MaxPriceLen == 3

Price1234 == <<"$", "1", ",", "2", "3", "4", ".", "5", "6">>
PriceAsk == <<"a", "s", "k">>

PriceTexts ==
  SeqsUpTo({"$", "pound", " ", "1", "5", ",", ".", "a"}, MaxPriceLen)
  \cup {Price1234, PriceAsk, <<"pound", "5", "0">>}

NextPrice == \E price \in PriceTexts : BuildListing("p1", price)

\* Listings are built from formatted prices of every shape.
SpecPrice == InitServer /\ [][NextPrice]_vars

\* The pieces of a MARKETPLACES value: names as users write them, an empty
\* piece, and a name that is not known
RawNames ==
  {<<"e", "b", "a", "y">>, <<" ", "E", "b", "a", "y">>,
   <<"F", "a", "c", "e", "b", "o", "o", "k", " ">>, <<>>, <<"d", "e", "p", "o", "p">>}

\* Longest MARKETPLACES list
MaxListLen == 2

InitEnv ==
  /\ InitProgram
  /\ platform = "linux"
  /\ envPath = NoPath
  /\ existing = {"/usr/bin/chromium"}
  /\ env \in {Env(list, id, secret) :
               list \in {NoList} \cup {List(pieces) : pieces \in SeqsUpTo(RawNames, MaxListLen)},
               id \in BOOLEAN, secret \in BOOLEAN}

NextReg ==
  \/ InitializeEnabled
  \/ \E mp \in OtherAdapters : RegisterMarketplace(mp)

\* The server starts in every environment, and the embedding code registers
\* adapters of its own afterwards.
SpecReg == InitEnv /\ [][NextReg]_vars

\* The `marketplace` argument of get_listing_details: absent, the names the
\* README lists, and a name no adapter has
MarketplaceArgs == {"", "facebook", "ebay", "depop", "poshmark", "mercari"}

NextDispatch ==
  \/ InitializeMarketplaces
  \/ \E mp \in OtherAdapters : RegisterMarketplace(mp)
  \/ \E mpName \in MarketplaceArgs, id \in {0, 1} : GetListingDetails("p1", mpName, id)
  \/ \E which \in {"photosRes", "infoRes"}, r \in {GqlOk(PhotosJson(FALSE, <<>>)),
                                                  GqlResponse(FALSE, FALSE, TRUE, FALSE, NoJson)} :
       FbDetailResp("p1", which, r)
  \/ Awaits("p1", "ebayToken") /\ \E r \in TokenResponsesFew : EbayTokenResp("p1", r)
  \/ \E ok \in BOOLEAN : EbayItemResp("p1", ok)
  \/ LaunchDone("p1")
  \/ BNewPage("p1")
  \/ SetViewport("p1")
  \/ PageClose("p1")
  \/ DepopDetailStep("p1")

\* The server answers get_listing_details requests.
SpecDispatch == InitServer /\ [][NextDispatch]_vars

NextShare ==
  \/ \E obj \in FbInstances : FbSearch("p1", obj, Params(NoLimit, "absent", SanFrancisco))
  \/ Awaits("p1", "fbLocFetch") /\ \E r \in LocResponsesFew : FbLocResp("p1", r)
  \/ Awaits("p1", "fbSearchFetch") /\ \E r \in FeedResponsesFew : FbSearchResp("p1", r)
  \/ \E obj \in {"ebay1", "ebay2"} : EbaySearch("p1", obj, Params(NoLimit, "absent", NoLocation))
  \/ Awaits("p1", "ebayToken") /\ \E r \in TokenResponsesFew : EbayTokenResp("p1", r)
  \/ Awaits("p1", "ebayFetch") /\ \E r \in BrowseResponsesFew : EbayFetchResp("p1", r)

\* Two instances of the Facebook adapter and two of the eBay adapter are
\* searched one after another.
SpecShare == InitServer /\ [][NextShare]_vars

PhotosResponses ==
  GqlFailures \cup {GqlOk(PhotosJson(FALSE, <<>>)), GqlOk(PhotosJson(TRUE, <<>>)),
                    GqlOk(PhotosJson(TRUE, <<"uri1">>)), GqlOk(PhotosJson(TRUE, <<"uri1", "uri2">>))}

InfoResponses ==
  GqlFailures \cup {GqlOk(InfoJson(FALSE, "undefined")), GqlOk(InfoJson(TRUE, "undefined")),
                    GqlOk(InfoJson(TRUE, "text"))}

ListingIds == {1, 2}

NextDetail ==
  \/ \E p \in Procs, id \in ListingIds : FbGetListingDetails(p, "fb1", id)
  \/ \E p \in Procs : Awaits(p, "fbDetailFetch") /\ \E r \in PhotosResponses : FbDetailResp(p, "photosRes", r)
  \/ \E p \in Procs : Awaits(p, "fbDetailFetch") /\ \E r \in InfoResponses : FbDetailResp(p, "infoRes", r)

\* Callers fetch the details of Facebook listings.
SpecDetail == InitServer /\ [][NextDetail]_vars

\* The steps of a call that the program or the browser it drives completes by
\* itself: the handler's loop, the launch and the page operations (local to the
\* machine), the navigations (`timeout: 30000`), Poshmark's 2 s grace timer and
\* its waitForSelector (`timeout: 10000`). The other awaits are fetches that
\* carry no timeout and no abort signal: they resume when the upstream answers.
Bounded(p) ==
  \/ AggNext(p)
  \/ LaunchDone(p)
  \/ BNewPage(p)
  \/ SetViewport(p)
  \/ PageClose(p)
  \/ DepopGoto(p)
  \/ PoshGoto(p)
  \/ PoshGrace(p)
  \/ PoshWaitSel(p)
  \/ Awaits(p, "poshDomEval") /\ \E cards \in {<<>>, <<Card(11)>>} : PoshDomEval(p, cards)

\* The server, where every step with a deadline is eventually taken and an
\* upstream may stay silent for ever.
SpecLive == InitRegistry /\ [][NextAgg]_vars /\ WF_vars(Bounded("p1"))

----------------------------------------------------------------------------
\* Properties

BuiltIn == {"facebook", "ebay", "depop", "poshmark"}

\* The first n elements of s
Take(s, n) == SubSeq(s, 1, IF Len(s) < n THEN Len(s) ELSE n)

Ids(listings) == [k \in DOMAIN listings |-> listings[k].id]

\* C1: the search of each of the four adapters (Facebook, eBay, Depop, Poshmark)
\* never raises: a search that has settled has returned an Outcome, and when an
\* exception was raised inside its body the Outcome it returned has success =
\* false and carries the adapter's name.
C1_SearchNeverRaises ==
  \A p \in Procs :
    LET l == proc[p] IN
    /\ l.op \in SearchOps =>
         /\ l.ret.kind # "raised"
         /\ l.pc = "done" => l.ret.kind = "value"
         /\ l.threw => /\ l.ret.kind = "value"
                       /\ l.ret.val.success = FALSE
                       /\ l.ret.val.marketplace = MpOf(l.op)
    /\ \A k \in DOMAIN l.returned :
         l.mps[k].name \in BuiltIn => l.returned[k].kind = "value"

\* One request in which the bodies of all four searches raised
C1_Witness ==
  \E p \in Procs :
    {"Facebook Marketplace search failed", "eBay search failed",
     "Depop search failed", "Poshmark search failed"}
      \subseteq {proc[p].returned[k].val.error : k \in DOMAIN proc[p].returned}

FailureShape(o) == o.success = FALSE => o.listings = <<>> /\ o.error # NoError

\* C2: every Outcome an adapter's search returns, and every Outcome in the
\* results of a search over all marketplaces, that has success = false has no
\* listings and has an error message.
C2_FailedOutcomeShape ==
  \A p \in Procs :
    /\ proc[p].ret.kind = "value" => FailureShape(proc[p].ret.val)
    /\ \A k \in DOMAIN proc[p].results : FailureShape(proc[p].results[k])

\* The results hold a failure an adapter returned and one the handler built
C2_Witness ==
  \E p \in Procs :
    LET results == proc[p].results IN
    /\ \E k \in DOMAIN results :
         results[k].marketplace = "facebook" /\ ~results[k].success
    /\ \E k \in DOMAIN results :
         results[k].marketplace = "custom" /\ ~results[k].success

\* The request for all marketplaces on p has gone through all its adapters
AggDone(p) == proc[p].top = "all" /\ proc[p].i > Len(proc[p].mps)

\* C3: a search over all N registered adapters yields exactly N Outcomes, one per
\* adapter; an adapter whose search throws yields an Outcome with success = false
\* and the adapter's name, and the Outcome of every other adapter is the one that
\* adapter returned.
C3_OneOutcomePerAdapter ==
  \A p \in Procs :
    LET l == proc[p] IN
    AggDone(p) =>
      /\ Len(l.results) = Len(l.mps)
      /\ \A k \in DOMAIN l.mps :
           \E j \in DOMAIN l.results :
             /\ l.results[j].marketplace = l.mps[k].name
             /\ l.returned[k].kind = "raised" =>
                  ~l.results[j].success /\ l.results[j].listings = <<>>
             /\ l.returned[k].kind = "value" => l.results[j] = l.returned[k].val

\* One adapter threw, the one before it and the one after it returned listings
C3_Witness ==
  \E p \in Procs :
    LET l == proc[p] IN
    /\ AggDone(p)
    /\ \E k \in DOMAIN l.returned :
         /\ l.returned[k].kind = "raised"
         /\ k > 1 /\ l.results[k - 1].success /\ l.results[k - 1].listings # <<>>
         /\ k < Len(l.results) /\ l.results[k + 1].success
         /\ l.results[k + 1].listings # <<>>

\* C4: the Outcomes of a search over all marketplaces are in the order in which
\* the adapters were registered.
C4_RegistrationOrder ==
  \A p \in Procs :
    AggDone(p) =>
      [k \in DOMAIN proc[p].results |-> proc[p].results[k].marketplace] = registered

\* Four adapters, the last two registered by the embedding code
C4_Witness ==
  \E p \in Procs :
    /\ AggDone(p)
    /\ [k \in DOMAIN proc[p].results |-> proc[p].results[k].marketplace]
         = <<"facebook", "ebay", "custom", "depop">>

\* The searches the handler on p has called that have settled
Settled(p) ==
  {k \in proc[p].started : k <= Len(proc[p].returned) \/ proc[p].pc = "done"}

LowerTrimmed(query) == toLowerCase(trim(query))

RECURSIVE Copies(_, _)
\* The number of elements of the bag B that are in the set S
Copies(S, B) ==
  IF S = {} THEN 0
  ELSE LET s == CHOOSE s \in S : TRUE IN CopiesIn(s, B) + Copies(S \ {s}, B)

\* The queries in the bag B that are spellings of the key k
Spellings(k, B) == {s \in BagToSet(B) : LowerTrimmed(s) = k}

\* C6: location lookups are keyed by the lower-cased, trimmed query: the cache
\* of an adapter has one entry per such key, a search that found its location
\* holds the entry of its query's key, and lookups made one after another send
\* one upstream query per key, and one more for each that found nothing.
C6_LookupsKeyedByNormalisedQuery ==
  /\ \A k \in DOMAIN locationCache["fb1"] : k = LowerTrimmed(k)
  /\ \A s \in BagToSet(locCalls) :
       LET k == LowerTrimmed(s) IN
       Copies(Spellings(k, locCalls), locCalls)
         <= 1 + Copies(Spellings(k, locMisses), locMisses)
  /\ \A p \in Procs :
       LET l == proc[p] IN
       l.op = "fbSearch" /\ l.coords # 0 =>
         LET k == LowerTrimmed(FbLocation(l.params)) IN
         k \in DOMAIN locationCache["fb1"] /\ locationCache["fb1"][k] = l.coords

\* "San Francisco" and " san francisco " have both been looked up: one entry, one
\* upstream query
C6_Witness ==
  /\ proc["p1"].params.location = SanFrancisco
  /\ proc["p2"].params.location = SanFranciscoPadded
  /\ proc["p1"].pc = "done" /\ proc["p1"].coords # 0
  /\ proc["p2"].pc = "done" /\ proc["p2"].coords = proc["p1"].coords
  /\ DOMAIN locationCache["fb1"] = {FbDefaultLocation}
  /\ locCalls = SetToBag({FbDefaultLocation})

\* A listing of the feed that is sold or otherwise not available
Unavailable(e) == e.is_sold \/ ~e.is_live \/ e.is_pending \/ e.is_hidden

\* An edge of the feed that holds a listing
Listable(e) == e.node = "story" /\ e.listing

\* C7: a Facebook search that succeeds returns, when showSold is absent or false,
\* no listing that is sold or otherwise unavailable, and, when showSold is true,
\* the first `limit` listings of the feed whatever their availability.
C7_ShowSold ==
  \A p \in Procs :
    LET l == proc[p] IN
    l.op = "fbSearch" /\ l.pc = "done" /\ l.ret.val.success =>
      LET feed == l.resp.json.items
          listings == l.ret.val.listings IN
      /\ l.params.showSold \in {"absent", "false"} =>
           \A k \in DOMAIN listings : ~Unavailable(feed[listings[k].id])
      /\ l.params.showSold = "true" =>
           Ids(listings) = Ids(Take(SelectSeq(feed, Listable), FbLimit(l.params)))

\* A feed of one sold and one available listing: the default search returns the
\* available one only
C7_Witness ==
  \E p \in Procs :
    LET l == proc[p] IN
    /\ l.op = "fbSearch" /\ l.pc = "done" /\ l.ret.val.success
    /\ l.params.showSold = "absent"
    /\ Len(l.resp.json.items) = 2
    /\ l.resp.json.items[1].is_sold /\ Listable(l.resp.json.items[1])
    /\ Ids(l.ret.val.listings) = <<2>>

\* C8: getToken() reuses the cached token only while more than 60 seconds remain
\* before its expiry; otherwise it exchanges the credentials again and returns
\* the new token.
C8_TokenReuse ==
  \A p \in Procs :
    LET l == proc[p] IN
    l.op = "ebaySearch" /\ HasCredentials(l.self) =>
      /\ ~l.exchanged <=> (l.tokPrev # 0 /\ l.tokExp - l.tokAt > 60 * 1000)
      /\ ~l.exchanged => l.token = l.tokPrev
      /\ l.exchanged /\ l.token # 0 => l.token # l.tokPrev /\ l.token <= nTokens

\* getToken() found a token with 30 seconds left and returned a new one
C8_Witness ==
  \E p \in Procs :
    LET l == proc[p] IN
    /\ l.op = "ebaySearch" /\ l.tokPrev # 0
    /\ l.tokExp - l.tokAt = 30 * 1000
    /\ l.exchanged /\ l.token # 0 /\ l.token # l.tokPrev

\* C9: a Poshmark search runs at most one extraction strategy, never both: when
\* the payload it has intercepted once navigation has settled is usable, the
\* Outcome is parsed from that payload and the DOM is not read; when it is not,
\* the DOM is read and the Outcome comes from it; a search that ends with
\* neither has failed.
C9_OneStrategy ==
  \A p \in Procs :
    LET l == proc[p] IN
    l.op = "poshSearch" =>
      /\ Cardinality(l.strategy) <= 1
      /\ "api" \in l.strategy =>
           /\ l.decided.data = "array"
           /\ l.ret = Returned(parseApiResponse(l.decided, PoshLimit(l.params)))
      /\ "dom" \in l.strategy =>
           /\ l.decided.data # "array"
           /\ l.resp.api = "dom" =>
                l.ret = Returned(parseDomResults(l.resp.cards, PoshLimit(l.params)))
      /\ l.pc \in {"poshWaitSel", "poshDomEval"} => l.strategy = {"dom"}
      /\ l.pc \in {"finally", "done"} /\ l.strategy = {} => ~l.ret.val.success

\* No payload was usable, and the DOM gave listings
C9_Witness ==
  \E p \in Procs :
    LET l == proc[p] IN
    /\ l.op = "poshSearch" /\ l.pc = "done"
    /\ l.strategy = {"dom"}
    /\ l.ret.val.success /\ l.ret.val.listings # <<>>

\* C10, as stated: no browser is launched before the first use, and at most one
\* launched instance is alive at any time, overlapping first uses included.
C10_OneSharedBrowser ==
  /\ ncalls = 0 => nInst = 0
  /\ Cardinality(Alive) <= 1

----------------------------------------------------------------------------
\* Pages and the calls that opened them

\* The page b.newPage() gave to the call of p is open: it was created, was not
\* closed, and the instance it belongs to is running.
PageOpen(p) == proc[p].pageOf # 0 /\ inst[proc[p].pageOf] = "alive"

\* C11: every page opened for a Depop or Poshmark call is closed by the time the
\* call returns, on every exit path (success, failed Outcome, or an error raised
\* after the page was created: page set-up, navigation, evaluation).
C11_PageClosedOnReturn ==
  \A p \in Procs :
    (proc[p].op \in BrowserOps /\ proc[p].pc = "done") => ~PageOpen(p)

----------------------------------------------------------------------------
\* The executable the browser is launched from

\* The environment names an executable
Overridden == envPath \notin {NoPath, ""}

\* path is the first of the platform's well-known locations that exists
FirstWellKnown(path) ==
  \E k \in DOMAIN PlatformPaths :
    /\ PlatformPaths[k] = path
    /\ path \in existing
    /\ \A j \in 1..(k - 1) : PlatformPaths[j] \notin existing

\* Neither the environment nor the platform's list yields a path
NeitherYields == ~Overridden /\ ~\E path \in existing : FirstWellKnown(path)

----------------------------------------------------------------------------
\* Deadlines

\* C13: every search imposes a deadline on each upstream call, so a search that
\* was called eventually returns (and with it the search_marketplace request
\* that called it), even when an upstream never responds.
C13_EverySearchReturns == \A p \in Procs : ~Idle(p) ~> Idle(p)

----------------------------------------------------------------------------
\* Listing details

\* C14: Facebook getListingDetails tolerates the failure of one of its two
\* queries: it raises only when both the photos query and the info query have
\* failed, and otherwise returns a ListingDetails.
C14_SingleFailureTolerated ==
  \A p \in Procs :
    (proc[p].op = "fbDetails" /\ proc[p].pc = "done" /\ proc[p].ret.kind = "raised") =>
      (proc[p].photosRes.st = "failed" /\ proc[p].infoRes.st = "failed")

----------------------------------------------------------------------------
\* Items that cannot be parsed

\* The result set the search l parsed item by item (<<>> when it parsed none)
ResultSet(l) ==
  CASE l.op = "fbSearch" /\ l.resp.api = "graphql" /\ ~fetchGraphQL(l.resp).thrown
         /\ l.resp.json.edges = "list" -> l.resp.json.items
    [] l.op = "ebaySearch" /\ l.resp.api = "browse" /\ ~l.resp.rejects /\ l.resp.parses
         /\ l.resp.ok /\ l.resp.summaries = "list" -> l.resp.items
    [] l.op = "depopSearch" /\ l.resp.api = "depop" /\ l.resp.error = NoError
         /\ l.resp.data = "truthy" /\ l.resp.products = "list" -> l.resp.items
    [] l.op = "poshSearch" /\ l.strategy = {"api"} -> l.decided.items
    [] OTHER -> <<>>

\* Reading the item raises an error: a null entry, or a Facebook listing whose
\* title is not a string
ParseRaises(l, item) ==
  IF l.op = "fbSearch"
    THEN FbParseEdge(item, FbShowSold(l.params)) = "throw"
    ELSE item.isNull

\* The item is read without an error and gives a listing
Parsable(l, item) ==
  CASE l.op = "fbSearch" -> FbParseEdge(item, FbShowSold(l.params)) = "push"
    [] l.op = "ebaySearch" -> ~item.isNull
    [] l.op = "depopSearch" -> ~item.isNull /\ item.slug # 0
    [] OTHER -> ~item.isNull /\ item.id # 0

\* The id of the listing a parsable item gives
ItemId(l, item) == IF l.op = "depopSearch" THEN item.slug ELSE item.id

\* `limit` as the search l reads it
LimitOf(l) ==
  CASE l.op = "fbSearch" -> FbLimit(l.params)
    [] l.op = "ebaySearch" -> EbayLimit(l.params)
    [] l.op = "depopSearch" -> DepopLimit(l.params)
    [] OTHER -> PoshLimit(l.params)

\* C15: in every adapter's search, an error while parsing one item of the result
\* set skips only that item: the Outcome has success = true and holds every
\* other parsable item, up to the limit, in the upstream order.
C15_ItemErrorSkipsItem ==
  \A p \in Procs :
    LET l == proc[p]
        Raising(item) == ParseRaises(l, item)
        Good(item) == Parsable(l, item)
        kept == Take(SelectSeq(ResultSet(l), Good), LimitOf(l)) IN
    (l.op \in SearchOps /\ l.pc = "done" /\ SelectSeq(ResultSet(l), Raising) # <<>>) =>
      /\ l.ret.val.success
      /\ Ids(l.ret.val.listings) = [k \in DOMAIN kept |-> ItemId(l, kept[k])]

----------------------------------------------------------------------------
\* Prices

\* The text holds no digit
NoNumber(price) == SelectSeq(price, IsDigit) = <<>>

\* C16: parsePrice takes a currency symbol and a magnitude from a formatted
\* price, the thousands separators removed ("$1,234.56" gives 1234.56 and "$");
\* from a price that holds no number it takes no numeric value, and the listing
\* built from it keeps the text as its price and has no priceNumeric.
C16_ParsePrice ==
  \A p \in Procs :
    LET l == proc[p] IN
    l.op = "parsePrice" =>
      /\ l.ret.val.price = l.price
      /\ l.price = Price1234 =>
           l.ret.val.priceNumeric = 123456 /\ l.ret.val.currency = "$"
      /\ NoNumber(l.price) => l.ret.val.priceNumeric = NoNumeric

----------------------------------------------------------------------------
\* The registry after initializeMarketplaces

Spelled(name) ==
  CASE name = "facebook" -> <<"f", "a", "c", "e", "b", "o", "o", "k">>
    [] name = "ebay" -> <<"e", "b", "a", "y">>

\* raw is the name chars, in any case, with blanks before and after it
SameName(raw, chars) ==
  \E a \in 0..Len(raw) :
    /\ a + Len(chars) <= Len(raw)
    /\ \A i \in 1..a : raw[i] \in WhiteSpace
    /\ \A i \in (a + Len(chars) + 1)..Len(raw) : raw[i] \in WhiteSpace
    /\ \A i \in 1..Len(chars) : raw[a + i] = chars[i] \/ <<chars[i], raw[a + i]>> \in Letters

\* The environment enables the known marketplace `name`: there is no
\* MARKETPLACES list, or the name is on it (whatever its case and the blanks
\* around it)
EnabledByEnv(name) ==
  \/ ~env.MARKETPLACES.set
  \/ \E k \in DOMAIN env.MARKETPLACES.pieces :
       SameName(env.MARKETPLACES.pieces[k], Spelled(name))

----------------------------------------------------------------------------
\* The adapter get_listing_details calls

\* C18: get_listing_details with marketplace M (facebook when none is given)
\* runs the getListingDetails of the adapter registered under the name M and of
\* no other; when no adapter is registered under M, no adapter is called and
\* the response is an error.
C18_DetailsFromNamedAdapter ==
  \A p \in Procs :
    LET l == proc[p]
        M == IF l.asked = "" THEN "facebook" ELSE l.asked IN
    l.op \in {"fbDetails", "ebayDetails", "depopDetails"} =>
      Entry(M, l.self) \in getMarketplace(M)

----------------------------------------------------------------------------
\* Caches and adapter instances

\* C19: the location cache and the token cache are shared by the instances of
\* an adapter class: a location query goes upstream only when no instance of
\* the Facebook adapter has resolved its key, and a token is requested only when
\* no instance of the eBay adapter holds a valid one.
C19_CachesSharedByInstances ==
  \A p \in Procs :
    /\ proc[p].pc = "fbLocFetch" =>
         \A obj \in FbInstances : proc[p].key \notin DOMAIN locationCache[obj]
    /\ proc[p].pc = "ebayToken" =>
         \A obj \in EbayInstances : ~TokenValid(obj)

----------------------------------------------------------------------------
\* The sold filter

\* The character c, upper-cased, is the upper-case character U
UpperIs(c, U) == c = U \/ <<c, U>> \in Letters

\* The title, upper-cased, starts with the marker
UpperStarts(title, marker) ==
  /\ Len(title) >= Len(marker)
  /\ \A i \in DOMAIN marker : UpperIs(title[i], marker[i])

\* One of the claim's signals holds of the listing
SoldSignal(e) ==
  \/ e.is_sold \/ ~e.is_live \/ e.is_pending \/ e.is_hidden
  \/ UpperStarts(e.title, <<"[", "S", "O", "L", "D", "]">>)
  \/ UpperStarts(e.title, <<"S", "O", "L", "D", " ", "-">>)
  \/ (Len(e.title) = 4 /\ UpperStarts(e.title, <<"S", "O", "L", "D">>))

\* A listing of the feed whose title is text, and that no signal excludes
Admitted(e) == Listable(e) /\ (e.titleIsString \/ e.title = <<>>) /\ ~SoldSignal(e)

\* C20: with showSold false (or absent) parseListings excludes a listing if and
\* only if a flag signal (is_sold, not is_live, is_pending, is_hidden) or the
\* title signal ([SOLD]..., SOLD -..., SOLD, in any case) holds: the listings
\* returned are the first `limit` listings of the feed that carry no signal.
C20_SoldSignalsUnioned ==
  \A p \in Procs :
    LET l == proc[p] IN
    (l.op = "fbSearch" /\ l.pc = "done" /\ l.ret.val.success
       /\ l.params.showSold \in {"absent", "false"}) =>
      Ids(l.ret.val.listings) =
        Ids(Take(SelectSeq(l.resp.json.items, Admitted), FbLimit(l.params)))

\* A feed of a listing with clean flags and a lower-case sold marker in its
\* title, and a hidden listing with a clean title: neither is returned
C20_Witness ==
  \E p \in Procs :
    LET l == proc[p] IN
    /\ l.op = "fbSearch" /\ l.pc = "done" /\ l.ret.val.success
    /\ l.params.showSold = "false"
    /\ Len(l.resp.json.items) = 2
    /\ l.resp.json.items[1] = [Available(<<"[", "s", "o", "l", "d", "]", " ", "x">>) EXCEPT !.id = 1]
    /\ l.resp.json.items[2].is_hidden /\ l.resp.json.items[2].title = <<"x">>
    /\ l.ret.val.listings = <<>>

----------------------------------------------------------------------------
\* Filtering and truncation

\* The edges of the feed that parseListings turns into listings: listings whose
\* title can be read and, unless showSold, that carry no sold signal
PassesFilter(e, showSold) ==
  /\ Listable(e)
  /\ showSold # "true" => (e.titleIsString \/ e.title = <<>>) /\ ~SoldSignal(e)

\* The positions of the feed that pass the filter, in feed order
PassingIds(feed, showSold) ==
  SelectSeq([i \in DOMAIN feed |-> i], LAMBDA i : PassesFilter(feed[i], showSold))

\* C21: Facebook search filters before it truncates: the listings of a search
\* that succeeded are the first `limit` edges, in feed order, of the feed that
\* pass the availability filter (an edge that is dropped does not count towards
\* the limit); the result holds at most `limit` listings and totalFound is the
\* number of listings returned.
C21_FilterThenTruncate ==
  \A p \in Procs :
    LET l == proc[p] IN
    l.op = "fbSearch" /\ l.pc = "done" /\ l.ret.val.success =>
      LET listings == l.ret.val.listings
          feed == l.resp.json.items IN
      /\ Ids(listings) = Take(PassingIds(feed, l.params.showSold), FbLimit(l.params))
      /\ \A k \in DOMAIN listings : feed[listings[k].id].id = listings[k].id
      /\ Len(listings) <= FbLimit(l.params)
      /\ l.ret.val.totalFound = Len(listings)

\* With limit 1, a feed whose first listing is sold and whose second is for
\* sale: the second is returned
C21_Witness ==
  \E p \in Procs :
    LET l == proc[p] IN
    /\ l.op = "fbSearch" /\ l.pc = "done" /\ l.ret.val.success
    /\ l.params.limit = 1 /\ l.params.showSold = "false"
    /\ Len(l.resp.json.items) = 2
    /\ l.resp.json.items[1].is_sold /\ Listable(l.resp.json.items[1])
    /\ Ids(l.ret.val.listings) = <<2>>
    /\ l.ret.val.totalFound = 1

----------------------------------------------------------------------------
\* Location before listings

\* The search on p sends its listings query in this step
SendsListingsQuery(p) ==
  proc'[p].op = "fbSearch" /\ proc'[p].pc = "fbSearchFetch" /\ proc[p].pc # "fbSearchFetch"

\* resolveLocation returns null to the search on p in this step
LocationUnresolved(p) ==
  proc[p].pc = "fbLocFetch" /\ proc'[p].pc # "fbLocFetch" /\ proc'[p].coords = 0

\* C22: in a Facebook search the listings query is sent only in a step in which
\* the search holds the coordinates resolveLocation returned for its location
\* (the ones cached under its key); and the step in which resolveLocation
\* returns null ends the search with a failed Outcome, no listings query sent.
C22_LocationBeforeListings ==
  [][\A p \in Procs :
       /\ SendsListingsQuery(p) =>
            /\ proc'[p].coords # 0
            /\ proc'[p].key \in DOMAIN locationCache'[proc'[p].self]
            /\ locationCache'[proc'[p].self][proc'[p].key] = proc'[p].coords
       /\ LocationUnresolved(p) =>
            /\ proc'[p].pc = "done"
            /\ proc'[p].ret.kind = "value"
            /\ ~proc'[p].ret.val.success
            /\ proc'[p].ret.val.listings = <<>>
            /\ proc'[p].ret.val.error # NoError
            /\ proc'[p].resp = NoResp]_vars

\* One search has ended because its location was not found, and another awaits
\* the answer to its listings query with the coordinates it resolved
C22_Witness ==
  \E p, o \in Procs :
    /\ proc[p].op = "fbSearch" /\ proc[p].pc = "done" /\ proc[p].coords = 0
    /\ proc[p].ret = Returned(createError("facebook", "Could not find location"))
    /\ proc[o].op = "fbSearch" /\ proc[o].pc = "fbSearchFetch" /\ proc[o].coords \in Places
    /\ locMisses # EmptyBag

----------------------------------------------------------------------------
\* Token before the Browse API call

\* The call on p sends its Browse API request in this step
SendsBrowseRequest(p) ==
  /\ proc'[p].pc \in {"ebayFetch", "ebayItemFetch"}
  /\ proc[p].pc \notin {"ebayFetch", "ebayItemFetch"}

\* The token exchange of the call on p is rejected in this step
ExchangeRejected(p) ==
  proc[p].pc = "ebayToken" /\ proc'[p].pc # "ebayToken" /\ proc'[p].token = 0

----------------------------------------------------------------------------
\* Schema drift

\* The search on p has consumed a listings response that fetchGraphQL accepted
\* and whose body lacks data.marketplace_search.feed_units.edges
PathMissing(p) ==
  /\ proc[p].op = "fbSearch" /\ proc[p].pc = "done"
  /\ proc[p].resp \in {GqlOk(FeedJson("absent", items)) : items \in {<<>>}}

\* C24: when the listings response lacks the expected top-level path, the
\* Facebook search returns a failed Outcome that carries the schema-drift
\* message and no listing, and no exception is raised.
C24_SchemaDrift ==
  \A p \in Procs :
    PathMissing(p) =>
      /\ proc[p].ret = Returned(Outcome("facebook", FALSE, <<>>,
                                        "Unexpected response structure", NoTotal))
      /\ ~proc[p].threw

\* A search has ended on a body without the path
C24_Witness ==
  \E p \in Procs :
    /\ PathMissing(p)
    /\ proc[p].coords # 0
    /\ proc[p].ret.kind = "value" /\ ~proc[p].ret.val.success

----------------------------------------------------------------------------
\* The payload the Poshmark observer buffers

\* C25: once the response handler of a Poshmark search has buffered a matching
\* payload, `apiData` stays that first payload while the page is listened to (a
\* later matching response does not replace it), and the payload the search
\* parses is that first payload.
C25_FirstPayloadBuffered ==
  \A p \in Procs :
    LET l == proc[p] IN
    l.op = "poshSearch" /\ l.firstPayload.seen =>
      /\ l.pc \in {"poshGoto", "poshGrace", "poshWaitSel", "poshDomEval"} =>
           l.apiData = l.firstPayload.body
      /\ "api" \in l.strategy => l.decided = l.firstPayload.body

----------------------------------------------------------------------------
\* Reconnection

\* A call on p enters getBrowser() in this step
CallsGetBrowser(p) ==
  ncalls' = ncalls + 1 /\ proc'[p] # proc[p] /\ proc'[p].op \in BrowserOps

\* puppeteer.launch resolves for the call on p in this step
LaunchResolves(p) == proc[p].pc = "launching" /\ proc'[p].pc = "bNewPage"

\* C26: a getBrowser call made while the cached instance is connected returns
\* that instance and launches nothing; a call made while the cached instance
\* reports disconnection does not return it: it launches (when an executable is
\* found), and when the launch resolves the new instance replaces the cached
\* handle and is the one returned.
C26_RelaunchWhenDisconnected ==
  [][\A p \in Procs :
       /\ CallsGetBrowser(p) /\ browser # 0 /\ inst[browser] = "alive" =>
            /\ proc'[p].pc = "bNewPage" /\ proc'[p].b = browser
            /\ nInst' = nInst /\ browser' = browser
       /\ CallsGetBrowser(p) /\ browser # 0 /\ inst[browser] # "alive" =>
            /\ proc'[p].b = 0
            /\ executablePath # NoPath => proc'[p].pc = "launching"
       /\ LaunchResolves(p) =>
            /\ nInst' = nInst + 1
            /\ browser' = nInst' /\ browser' # browser
            /\ inst'[browser'] = "alive"
            /\ proc'[p].b = browser']_vars

\* The first instance is disconnected; a second one was launched, is the cached
\* handle, and a caller is opening its page on it
C26_Witness ==
  /\ nInst = 2 /\ browser = 2
  /\ inst[1] = "disconnected" /\ inst[2] = "alive"
  /\ \E p, o \in Procs :
       /\ proc[p].pc = "bNewPage" /\ proc[p].b = 2
       /\ proc[o].pc = "done" /\ proc[o].ret.val.success

----------------------------------------------------------------------------
\* Who closes the shared instance

\* The instance i is closed in this step
Closes(i) == inst[i] # "closed" /\ inst'[i] = "closed"

\* C27: no step of an adapter operation closes the shared browser instance or
\* touches the state of an instance: the adapters open and close their own
\* pages only. An instance is closed by closeBrowser alone.
C27_AdaptersNeverCloseBrowser ==
  [][/\ (\E p \in Procs : proc'[p] # proc[p]) =>
          /\ \A i \in DOMAIN inst : inst'[i] = inst[i]
          /\ closing' = closing
     /\ \A i \in DOMAIN inst :
          Closes(i) => closing = 0 /\ closing' = i /\ browser = i /\ proc' = proc]_vars

\* A search has closed its page and returned, and the instance it used is
\* still connected, cached, and in use by the other caller
C27_Witness ==
  \E p, o \in Procs :
    /\ proc[p].op \in {"depopSearch", "poshSearch"}
    /\ proc[p].pc = "done" /\ proc[p].pageOf = 0
    /\ proc[p].ret.kind = "value" /\ proc[p].ret.val.success
    /\ browser # 0 /\ inst[browser] = "alive" /\ nInst = 1
    /\ proc[o].op \in BrowserOps /\ proc[o].pvar = browser

----------------------------------------------------------------------------
\* Overlapping token exchanges

\* The exchange of the call on p resolves in this step
ExchangeResolves(p) ==
  proc[p].pc = "ebayToken" /\ proc'[p].pc # "ebayToken" /\ proc'[p].token # 0

\* C28: overlapping getToken() calls each perform their own exchange. The cached
\* token and the cached expiry are written together, from one exchange response:
\* a step that changes either of them is the resumption of one exchange, and
\* stores the token that exchange issued with the expiry of that response. The
\* exchange that completes last is the one cached, and each caller gets the
\* token its own exchange issued.
C28_TokenAndExpiryFromOneExchange ==
  [][/\ \A obj \in EbayInstances :
          accessToken'[obj] # accessToken[obj] \/ tokenExpiresAt'[obj] # tokenExpiresAt[obj] =>
            \E p \in Procs :
              /\ ExchangeResolves(p) /\ proc[p].self = obj
              /\ nTokens' = nTokens + 1
              /\ accessToken'[obj] = nTokens'
              /\ \E t \in Lifetimes : tokenExpiresAt'[obj] = now + t * 1000
     /\ \A p \in Procs :
          ExchangeResolves(p) =>
            /\ proc'[p].token = nTokens' /\ nTokens' = nTokens + 1
            /\ accessToken'[proc[p].self] = proc'[p].token]_vars

\* Two calls found no valid token, each exchanged, and the token of the
\* exchange that completed last is the one cached
C28_Witness ==
  \E p, o \in Procs :
    /\ proc[p].exchanged /\ proc[o].exchanged
    /\ proc[p].tokPrev = 0 /\ proc[o].tokPrev = 0
    /\ proc[p].token = 1 /\ proc[o].token = 2
    /\ proc[p].self = proc[o].self
    /\ accessToken[proc[o].self] = 2 /\ nTokens = 2

----------------------------------------------------------------------------
\* What the location cache holds

\* A Facebook search starts on p in this step
StartsFbSearch(p) ==
  ncalls' = ncalls + 1 /\ proc'[p] # proc[p] /\ proc'[p].op = "fbSearch"

\* C29: the location cache holds successful resolutions only. A lookup that
\* fails or finds nothing leaves the cache as it was and gives no coordinates;
\* a lookup whose key is not cached (after a failed one too) sends the key
\* upstream; a lookup whose key is cached sends nothing and gives the cached
\* coordinates; and no step removes a key from the cache.
C29_CacheHoldsResolutionsOnly ==
  [][/\ \A obj \in FbInstances :
          /\ DOMAIN locationCache[obj] \subseteq DOMAIN locationCache'[obj]
          /\ \A k \in DOMAIN locationCache'[obj] : locationCache'[obj][k] \in Places
     /\ \A p \in Procs :
          /\ LocationUnresolved(p) =>
               /\ locationCache' = locationCache
               /\ proc'[p].coords = 0
               /\ proc'[p].key \notin DOMAIN locationCache'[proc'[p].self]
          /\ StartsFbSearch(p) =>
               LET key == proc'[p].key
                   cache == locationCache[proc'[p].self] IN
               IF key \in DOMAIN cache
                 THEN locCalls' = locCalls /\ proc'[p].coords = cache[key]
                 ELSE locCalls' = locCalls (+) SetToBag({key})
                        /\ proc'[p].pc = "fbLocFetch"]_vars

\* A key was looked up and not found, is not in the cache, and a second search
\* has sent it upstream again
C29_Witness ==
  \E p \in Procs :
    LET k == proc[p].key IN
    /\ proc[p].op = "fbSearch" /\ proc[p].pc = "fbLocFetch"
    /\ CopiesIn(k, locMisses) = 1
    /\ CopiesIn(k, locCalls) = 2
    /\ k \notin DOMAIN locationCache[proc[p].self]

----------------------------------------------------------------------------
\* closeBrowser

\* closeBrowser() is called and finds a handle / resumes after close(), in this step
CloseCalled == closing = 0 /\ closing' # 0
CloseReturns == closing # 0 /\ closing' = 0

\* C30: closeBrowser closes the instance that is cached when it is called, and
\* when it returns the handle is empty whether or not the instance was still
\* connected (an error of close() is swallowed); while the handle is empty a
\* call of closeBrowser changes nothing; and a getBrowser call made once
\* closeBrowser has closed the instance never returns it: it launches.
C30_CloseBrowser ==
  [][/\ CloseCalled => closing' = browser /\ browser # 0 /\ inst'[browser] # "alive"
     /\ CloseReturns => browser' = 0 /\ inst'[closing] # "alive"
     /\ browser = 0 =>
          /\ closing = 0 /\ closing' = 0
          /\ \A i \in DOMAIN inst : ~Closes(i)
     /\ \A p \in Procs :
          CallsGetBrowser(p) /\ (browser = 0 \/ browser = closing) =>
            /\ proc'[p].b = 0
            /\ executablePath # NoPath => proc'[p].pc = "launching"]_vars

\* closeBrowser has closed the first instance and returned; the call made after
\* it has launched a second one, which is the cached handle
C30_Witness ==
  /\ nInst = 2 /\ browser = 2 /\ closing = 0
  /\ inst[1] = "closed" /\ inst[2] = "alive"
  /\ \E p \in Procs : proc[p].b = 2 /\ proc[p].pc = "bNewPage"

====
